---------------------------- MODULE Spec2Model ----------------------------
(***************************************************************************)
(* Model of the T-Bank InstrumentsService REST wrappers                    *)
(* (src/integrations/tbank/rest_api/tbank_instruments_service.py):         *)
(*   - BaseInstrumentsClient._format_datetime / _parse_datetime,           *)
(*   - the payload built by each of the 40 endpoint methods,               *)
(*   - InstrumentsService (requests) and AsyncInstrumentsService (httpx):  *)
(*     _request, the lazily created async client, close(),                 *)
(*   - one use of a client: the constructor, one call from its keyword     *)
(*     arguments to its result, and the exit of the with block,            *)
(*   - get_bool_env_var of src/integrations/common/utils.py.               *)
(*                                                                         *)
(* Python values are modelled as follows.  An Optional[T] is a sequence:   *)
(* NONE is <<>> and a present value v is <<v>>.  A str that the code       *)
(* transforms (a formatted timestamp) is a sequence of one-character       *)
(* strings; other strings are TLA+ strings.  A dict is a function from     *)
(* its keys.                                                               *)
(***************************************************************************)
EXTENDS Integers, Sequences, FiniteSets, TLC

VARIABLES
    dt_pc,      \* position of the timestamp round trip: "start", "formatted", "parsed"
    dt_in,      \* Optional[datetime] handed to _format_datetime
    dt_str,     \* Optional[str] returned by _format_datetime
    dt_out,     \* outcome of _parse_datetime(dt_str)
    pl_pc,      \* position of an endpoint method call: "start", "built"
    call,       \* the call: [client, method, args]
    request,    \* Optional: what the method hands to _request, [endpoint, payload]
    kind,       \* the class of the client instance: "sync" or "async"
    token,      \* self.token
    timeout,    \* self.timeout
    session,    \* Optional: self.session of InstrumentsService
    _client,    \* Optional: self._client of AsyncInstrumentsService, an index of httpx_clients
    httpx_clients,  \* every httpx.AsyncClient the instance created, in creation order
    tasks,      \* the caller's tasks: position, operation, requests posted, outcome, result
    close_returned, \* history: a close() of the instance has returned
    gathered,   \* Optional: the list asyncio.gather returned to the caller
    cl_pc,      \* position of one use of a client: "start", "failed", "awaiting", "done", "exited"
    cl_call,    \* Optional: the call, [client, token, timeout, extra, method, given]
    cl_instance,    \* Optional: what the constructor call gave, an instance or a raise
    cl_request, \* Optional: the arguments _request is called with, [endpoint, payload]
    cl_sent,    \* Optional: the request posted
    cl_outcome, \* Optional: the transport's answer
    cl_result,  \* Optional: what the call gives its caller
    cl_exit,    \* Optional: how the with block was left, [returned, propagated]
    ev_pc,      \* position of a get_bool_env_var call: "start", "done"
    environ,    \* os.environ: the variables that are set, name to value
    ev_call,    \* Optional: the call, [var_name, given]
    ev_result   \* Optional: what get_bool_env_var gives its caller

dt_vars == <<dt_pc, dt_in, dt_str, dt_out>>
pl_vars == <<pl_pc, call, request>>
d_vars == <<kind, token, timeout, session, _client, httpx_clients, tasks, close_returned, gathered>>
cl_vars == <<cl_pc, cl_call, cl_instance, cl_request, cl_sent, cl_outcome, cl_result, cl_exit>>
ev_vars == <<ev_pc, environ, ev_call, ev_result>>

NONE == <<>>
Some(v) == <<v>>

(***************************************************************************)
(* str helpers: strings as sequences of characters                         *)
(***************************************************************************)
DigitChars == <<"0", "1", "2", "3", "4", "5", "6", "7", "8", "9">>

IsDigit(c) == \E d \in 1..10 : DigitChars[d] = c

DigitVal(c) == (CHOOSE d \in 1..10 : DigitChars[d] = c) - 1

RECURSIVE Pad(_, _)
\* the decimal digits of n, zero-padded to width w (the "%0wd" of isoformat)
Pad(n, w) == IF w = 0 THEN <<>> ELSE Append(Pad(n \div 10, w - 1), DigitChars[(n % 10) + 1])

AllDigits(s) == \A i \in 1..Len(s) : IsDigit(s[i])

RECURSIVE ToNat(_)
ToNat(s) == IF s = <<>> THEN 0 ELSE 10 * ToNat(SubSeq(s, 1, Len(s) - 1)) + DigitVal(s[Len(s)])

StartsWith(s, p) == Len(s) >= Len(p) /\ SubSeq(s, 1, Len(p)) = p

EndsWith(s, p) == Len(s) >= Len(p) /\ SubSeq(s, Len(s) - Len(p) + 1, Len(s)) = p

Contains(s, p) == \E i \in 1..(Len(s) - Len(p) + 1) : SubSeq(s, i, i + Len(p) - 1) = p

RECURSIVE Replace(_, _, _)
\* str.replace(old, new): every non-overlapping occurrence, left to right
Replace(s, old, new) ==
    IF Len(s) < Len(old) THEN s
    ELSE IF StartsWith(s, old)
         THEN new \o Replace(SubSeq(s, Len(old) + 1, Len(s)), old, new)
         ELSE <<s[1]>> \o Replace(SubSeq(s, 2, Len(s)), old, new)

PlusZero == <<"+", "0", "0", ":", "0", "0">>
Zulu == <<"Z">>

(***************************************************************************)
(* datetime: the fields of a datetime object; tz is NONE for a naive       *)
(* datetime and <<utcoffset in seconds>> for an aware one.                 *)
(***************************************************************************)
Abs(n) == IF n < 0 THEN -n ELSE n

\* datetime.isoformat(): YYYY-MM-DDTHH:MM:SS[.ffffff][+HH:MM[:SS]]
isoformat(dt) ==
    LET date == Pad(dt.year, 4) \o <<"-">> \o Pad(dt.month, 2) \o <<"-">> \o Pad(dt.day, 2)
        time == Pad(dt.hour, 2) \o <<":">> \o Pad(dt.minute, 2) \o <<":">> \o Pad(dt.second, 2)
        frac == IF dt.microsecond = 0 THEN <<>> ELSE <<".">> \o Pad(dt.microsecond, 6)
        off  == IF dt.tz = NONE THEN <<>>
                ELSE LET o  == dt.tz[1]
                         a  == Abs(o)
                         hm == <<IF o < 0 THEN "-" ELSE "+">> \o Pad(a \div 3600, 2)
                                  \o <<":">> \o Pad((a % 3600) \div 60, 2)
                     IN  IF a % 60 = 0 THEN hm ELSE hm \o <<":">> \o Pad(a % 60, 2)
    IN  date \o <<"T">> \o time \o frac \o off

ValueError == [raised |-> TRUE, value |-> NONE]
Returned(v) == [raised |-> FALSE, value |-> v]

\* the UTC offset suffix of an ISO string: <<>> (naive), or sign HH:MM[:SS]
parse_offset(s) ==
    IF s = <<>> THEN Returned(NONE)
    ELSE IF /\ Len(s) \in {6, 9}
            /\ s[1] \in {"+", "-"}
            /\ AllDigits(SubSeq(s, 2, 3)) /\ s[4] = ":" /\ AllDigits(SubSeq(s, 5, 6))
            /\ Len(s) = 9 => (s[7] = ":" /\ AllDigits(SubSeq(s, 8, 9)))
         THEN LET a == 3600 * ToNat(SubSeq(s, 2, 3)) + 60 * ToNat(SubSeq(s, 5, 6))
                        + (IF Len(s) = 9 THEN ToNat(SubSeq(s, 8, 9)) ELSE 0)
              IN  Returned(Some(IF s[1] = "-" THEN -a ELSE a))
         ELSE ValueError

\* datetime.fromisoformat(s) on the strings isoformat() writes; anything else
\* (a 'Z' left in the string, a truncated field) raises ValueError
fromisoformat(s) ==
    IF ~ /\ Len(s) >= 19
         /\ AllDigits(SubSeq(s, 1, 4)) /\ s[5] = "-" /\ AllDigits(SubSeq(s, 6, 7))
         /\ s[8] = "-" /\ AllDigits(SubSeq(s, 9, 10)) /\ s[11] = "T"
         /\ AllDigits(SubSeq(s, 12, 13)) /\ s[14] = ":" /\ AllDigits(SubSeq(s, 15, 16))
         /\ s[17] = ":" /\ AllDigits(SubSeq(s, 18, 19))
    THEN ValueError
    ELSE LET hasFrac == Len(s) >= 20 /\ s[20] = "."
             fracOk  == hasFrac => (Len(s) >= 26 /\ AllDigits(SubSeq(s, 21, 26)))
             rest    == IF hasFrac THEN SubSeq(s, 27, Len(s)) ELSE SubSeq(s, 20, Len(s))
             off     == parse_offset(rest)
         IN  IF ~fracOk \/ off.raised THEN ValueError
             ELSE Returned(Some(
                    [year |-> ToNat(SubSeq(s, 1, 4)), month |-> ToNat(SubSeq(s, 6, 7)),
                     day |-> ToNat(SubSeq(s, 9, 10)), hour |-> ToNat(SubSeq(s, 12, 13)),
                     minute |-> ToNat(SubSeq(s, 15, 16)), second |-> ToNat(SubSeq(s, 18, 19)),
                     microsecond |-> IF hasFrac THEN ToNat(SubSeq(s, 21, 26)) ELSE 0,
                     tz |-> off.value]))

\* a bug _format_datetime could have: the UTC offset is left as isoformat wrote it
_format_datetime_keeps_offset(dt) == IF dt = NONE THEN NONE ELSE Some(isoformat(dt[1]))

\* BaseInstrumentsClient._format_datetime
_format_datetime(dt) ==
    IF dt = NONE THEN NONE
    ELSE Some(Replace(isoformat(dt[1]), PlusZero, Zulu))

\* a bug _parse_datetime could have: the 'Z' is handed to fromisoformat as it is
_parse_datetime_keeps_Z(dt_s) ==
    IF dt_s = NONE \/ dt_s = Some(<<>>) THEN Returned(NONE)
    ELSE fromisoformat(dt_s[1])

\* BaseInstrumentsClient._parse_datetime
_parse_datetime(dt_s) ==
    IF dt_s = NONE \/ dt_s = Some(<<>>) THEN Returned(NONE)
    ELSE fromisoformat(Replace(dt_s[1], Zulu, PlusZero))

(***************************************************************************)
(* The datetimes a caller passes: naive ones (as instruments_examples.py   *)
(* does), aware UTC ones and aware ones at other offsets.                  *)
(***************************************************************************)
Offsets == {0, 30, 10800, -10800, 19800, -30}

Datetimes ==
    [year : {2024}, month : {1, 12}, day : {1, 31}, hour : {0, 23}, minute : {0, 59},
     second : {0}, microsecond : {0, 5},
     tz : {NONE} \cup {Some(o) : o \in Offsets}]

DatetimeArgs == {NONE} \cup {Some(d) : d \in Datetimes}

(***************************************************************************)
(* Endpoint methods: the payload each one builds                           *)
(***************************************************************************)
Optional(S) == {NONE} \cup {Some(v) : v \in S}

\* a dict: {} and d[k] = v
EmptyDict == <<>>
Put(d, k, v) == (k :> v) @@ d

\* `if x:` for the types the optional arguments have: None is false, and so are
\* the empty str, the empty list and the empty dict; a datetime and an Enum
\* member define neither __bool__ nor __len__ and are always true
\* a bug the tests of optional arguments could have: `is not None` for `if x:`
bool_str_is_not_none(o) == o /= NONE

\* the same bug for an Optional dict and an Optional list: the empty one is sent too
bool_dict_is_not_none(o) == o /= NONE

bool_list_is_not_none(o) == o /= NONE

\* a bug the enums could have: an *_UNSPECIFIED member that is false, as the zero member
\* of an IntEnum would be
bool_enum_unspecified_is_false(o) ==
    o /= NONE /\ o[1].name \notin {"INSTRUMENT_TYPE_UNSPECIFIED", "ASSET_TYPE_UNSPECIFIED"}

bool_str(o) == o /= NONE /\ o[1] /= ""
bool_datetime(o) == o /= NONE
bool_enum(o) == o /= NONE
bool_dict(o) == o /= NONE /\ DOMAIN o[1] /= {}
bool_list(o) == o /= NONE /\ Len(o[1]) > 0

\* enum InstrumentStatus: its members
InstrumentStatusMembers ==
    {[cls |-> "InstrumentStatus", name |-> "INSTRUMENT_STATUS_UNSPECIFIED", value |-> "INSTRUMENT_STATUS_UNSPECIFIED"],
     [cls |-> "InstrumentStatus", name |-> "INSTRUMENT_STATUS_BASE", value |-> "INSTRUMENT_STATUS_BASE"],
     [cls |-> "InstrumentStatus", name |-> "INSTRUMENT_STATUS_ALL", value |-> "INSTRUMENT_STATUS_ALL"]}

\* enum InstrumentIdType: its members
InstrumentIdTypeMembers ==
    {[cls |-> "InstrumentIdType", name |-> "INSTRUMENT_ID_UNSPECIFIED", value |-> "INSTRUMENT_ID_UNSPECIFIED"],
     [cls |-> "InstrumentIdType", name |-> "INSTRUMENT_ID_TYPE_FIGI", value |-> "INSTRUMENT_ID_TYPE_FIGI"],
     [cls |-> "InstrumentIdType", name |-> "INSTRUMENT_ID_TYPE_TICKER", value |-> "INSTRUMENT_ID_TYPE_TICKER"],
     [cls |-> "InstrumentIdType", name |-> "INSTRUMENT_ID_TYPE_UID", value |-> "INSTRUMENT_ID_TYPE_UID"],
     [cls |-> "InstrumentIdType", name |-> "INSTRUMENT_ID_TYPE_POSITION_UID", value |-> "INSTRUMENT_ID_TYPE_POSITION_UID"]}

\* enum InstrumentType: its members
InstrumentTypeMembers ==
    {[cls |-> "InstrumentType", name |-> "INSTRUMENT_TYPE_UNSPECIFIED", value |-> "INSTRUMENT_TYPE_UNSPECIFIED"],
     [cls |-> "InstrumentType", name |-> "INSTRUMENT_TYPE_BOND", value |-> "INSTRUMENT_TYPE_BOND"],
     [cls |-> "InstrumentType", name |-> "INSTRUMENT_TYPE_SHARE", value |-> "INSTRUMENT_TYPE_SHARE"],
     [cls |-> "InstrumentType", name |-> "INSTRUMENT_TYPE_CURRENCY", value |-> "INSTRUMENT_TYPE_CURRENCY"],
     [cls |-> "InstrumentType", name |-> "INSTRUMENT_TYPE_ETF", value |-> "INSTRUMENT_TYPE_ETF"],
     [cls |-> "InstrumentType", name |-> "INSTRUMENT_TYPE_FUTURES", value |-> "INSTRUMENT_TYPE_FUTURES"],
     [cls |-> "InstrumentType", name |-> "INSTRUMENT_TYPE_SP", value |-> "INSTRUMENT_TYPE_SP"],
     [cls |-> "InstrumentType", name |-> "INSTRUMENT_TYPE_OPTION", value |-> "INSTRUMENT_TYPE_OPTION"]}

\* enum AssetType: its members
AssetTypeMembers ==
    {[cls |-> "AssetType", name |-> "ASSET_TYPE_UNSPECIFIED", value |-> "ASSET_TYPE_UNSPECIFIED"],
     [cls |-> "AssetType", name |-> "ASSET_TYPE_CURRENCY", value |-> "ASSET_TYPE_CURRENCY"],
     [cls |-> "AssetType", name |-> "ASSET_TYPE_COMMODITY", value |-> "ASSET_TYPE_COMMODITY"],
     [cls |-> "AssetType", name |-> "ASSET_TYPE_INDEX", value |-> "ASSET_TYPE_INDEX"],
     [cls |-> "AssetType", name |-> "ASSET_TYPE_SECURITY", value |-> "ASSET_TYPE_SECURITY"]}

(***************************************************************************)
(* Sample argument values                                                  *)
(***************************************************************************)
Strs == {"", "SBER", "TQBR"}

NaiveSample ==
    [year |-> 2024, month |-> 1, day |-> 1, hour |-> 0, minute |-> 0, second |-> 0,
     microsecond |-> 0, tz |-> NONE]

DatetimeSamples == {NaiveSample, [NaiveSample EXCEPT !.month = 12, !.day = 31, !.tz = Some(0)]}

StrLists == {<<>>, <<"a1">>, <<"a1", "a1">>, <<"a2", "a1">>}

Pagings == {EmptyDict, [limit |-> 10], [limit |-> 10, offset |-> 0]}

InstrumentLists ==
    {<<>>, <<[figi |-> "F1"]>>, <<[figi |-> "F1"], [figi |-> "F1"]>>,
     <<[figi |-> "F2"], [figi |-> "F1"]>>}

\* the arguments of a method that takes none
NoArgs == EmptyDict

\* InstrumentsService.bonds
bonds(a) ==
    LET p0 == Put(EmptyDict, "instrumentStatus", a.instrument_status.value)
    IN  [endpoint |-> "Bonds", payload |-> p0]

\* InstrumentsService.bond_by
bond_by(a) ==
    LET p0 == Put(EmptyDict, "idType", a.id_type.value)
        p1 == IF bool_str(a.class_code) THEN Put(p0, "classCode", a.class_code[1]) ELSE p0
        p2 == IF bool_str(a.id) THEN Put(p1, "id", a.id[1]) ELSE p1
    IN  [endpoint |-> "BondBy", payload |-> p2]

\* InstrumentsService.get_bond_coupons
get_bond_coupons(a) ==
    LET p0 == Put(EmptyDict, "instrumentId", a.instrument_id)
        p1 == IF bool_datetime(a.from_date) THEN Put(p0, "from", _format_datetime(a.from_date)[1]) ELSE p0
        p2 == IF bool_datetime(a.to_date) THEN Put(p1, "to", _format_datetime(a.to_date)[1]) ELSE p1
    IN  [endpoint |-> "GetBondCoupons", payload |-> p2]

\* InstrumentsService.get_bond_events
get_bond_events(a) ==
    LET p0 == Put(EmptyDict, "instrumentId", a.instrument_id)
        p1 == IF bool_datetime(a.from_date) THEN Put(p0, "from", _format_datetime(a.from_date)[1]) ELSE p0
        p2 == IF bool_datetime(a.to_date) THEN Put(p1, "to", _format_datetime(a.to_date)[1]) ELSE p1
        p3 == IF bool_str(a.event_type) THEN Put(p2, "eventType", a.event_type[1]) ELSE p2
    IN  [endpoint |-> "GetBondEvents", payload |-> p3]

\* InstrumentsService.get_accrued_interests
get_accrued_interests(a) ==
    LET p0 == Put(EmptyDict, "instrumentId", a.instrument_id)
        p1 == IF bool_datetime(a.from_date) THEN Put(p0, "from", _format_datetime(a.from_date)[1]) ELSE p0
        p2 == IF bool_datetime(a.to_date) THEN Put(p1, "to", _format_datetime(a.to_date)[1]) ELSE p1
    IN  [endpoint |-> "GetAccruedInterests", payload |-> p2]

\* InstrumentsService.shares
shares(a) ==
    LET p0 == Put(EmptyDict, "instrumentStatus", a.instrument_status.value)
    IN  [endpoint |-> "Shares", payload |-> p0]

\* InstrumentsService.share_by
share_by(a) ==
    LET p0 == Put(EmptyDict, "idType", a.id_type.value)
        p1 == IF bool_str(a.class_code) THEN Put(p0, "classCode", a.class_code[1]) ELSE p0
        p2 == IF bool_str(a.id) THEN Put(p1, "id", a.id[1]) ELSE p1
    IN  [endpoint |-> "ShareBy", payload |-> p2]

\* InstrumentsService.get_dividends
get_dividends(a) ==
    LET p0 == Put(EmptyDict, "instrumentId", a.instrument_id)
        p1 == IF bool_datetime(a.from_date) THEN Put(p0, "from", _format_datetime(a.from_date)[1]) ELSE p0
        p2 == IF bool_datetime(a.to_date) THEN Put(p1, "to", _format_datetime(a.to_date)[1]) ELSE p1
    IN  [endpoint |-> "GetDividends", payload |-> p2]

\* InstrumentsService.etfs
etfs(a) ==
    LET p0 == Put(EmptyDict, "instrumentStatus", a.instrument_status.value)
    IN  [endpoint |-> "Etfs", payload |-> p0]

\* InstrumentsService.etf_by
etf_by(a) ==
    LET p0 == Put(EmptyDict, "idType", a.id_type.value)
        p1 == IF bool_str(a.class_code) THEN Put(p0, "classCode", a.class_code[1]) ELSE p0
        p2 == IF bool_str(a.id) THEN Put(p1, "id", a.id[1]) ELSE p1
    IN  [endpoint |-> "EtfBy", payload |-> p2]

\* InstrumentsService.currencies
currencies(a) ==
    LET p0 == Put(EmptyDict, "instrumentStatus", a.instrument_status.value)
    IN  [endpoint |-> "Currencies", payload |-> p0]

\* InstrumentsService.currency_by
currency_by(a) ==
    LET p0 == Put(EmptyDict, "idType", a.id_type.value)
        p1 == IF bool_str(a.class_code) THEN Put(p0, "classCode", a.class_code[1]) ELSE p0
        p2 == IF bool_str(a.id) THEN Put(p1, "id", a.id[1]) ELSE p1
    IN  [endpoint |-> "CurrencyBy", payload |-> p2]

\* InstrumentsService.futures
futures(a) ==
    LET p0 == Put(EmptyDict, "instrumentStatus", a.instrument_status.value)
    IN  [endpoint |-> "Futures", payload |-> p0]

\* InstrumentsService.future_by
future_by(a) ==
    LET p0 == Put(EmptyDict, "idType", a.id_type.value)
        p1 == IF bool_str(a.class_code) THEN Put(p0, "classCode", a.class_code[1]) ELSE p0
        p2 == IF bool_str(a.id) THEN Put(p1, "id", a.id[1]) ELSE p1
    IN  [endpoint |-> "FutureBy", payload |-> p2]

\* InstrumentsService.get_futures_margin
get_futures_margin(a) ==
    LET p0 == Put(EmptyDict, "instrumentId", a.instrument_id)
    IN  [endpoint |-> "GetFuturesMargin", payload |-> p0]

\* InstrumentsService.options
options(a) ==
    LET p0 == Put(EmptyDict, "instrumentStatus", a.instrument_status.value)
    IN  [endpoint |-> "Options", payload |-> p0]

\* InstrumentsService.option_by
option_by(a) ==
    LET p0 == Put(EmptyDict, "idType", a.id_type.value)
        p1 == IF bool_str(a.class_code) THEN Put(p0, "classCode", a.class_code[1]) ELSE p0
        p2 == IF bool_str(a.id) THEN Put(p1, "id", a.id[1]) ELSE p1
    IN  [endpoint |-> "OptionBy", payload |-> p2]

\* InstrumentsService.options_by
options_by(a) ==
    LET p0 == EmptyDict
        p1 == IF bool_str(a.basic_asset_uid) THEN Put(p0, "basicAssetUid", a.basic_asset_uid[1]) ELSE p0
        p2 == IF bool_str(a.basic_asset_position_uid) THEN Put(p1, "basicAssetPositionUid", a.basic_asset_position_uid[1]) ELSE p1
    IN  [endpoint |-> "OptionsBy", payload |-> p2]

\* InstrumentsService.structured_notes
structured_notes(a) ==
    LET p0 == Put(EmptyDict, "instrumentStatus", a.instrument_status.value)
    IN  [endpoint |-> "StructuredNotes", payload |-> p0]

\* InstrumentsService.structured_note_by
structured_note_by(a) ==
    LET p0 == Put(EmptyDict, "idType", a.id_type.value)
        p1 == IF bool_str(a.class_code) THEN Put(p0, "classCode", a.class_code[1]) ELSE p0
        p2 == IF bool_str(a.id) THEN Put(p1, "id", a.id[1]) ELSE p1
    IN  [endpoint |-> "StructuredNoteBy", payload |-> p2]

\* InstrumentsService.indicatives
indicatives(a) == [endpoint |-> "Indicatives", payload |-> EmptyDict]

\* a bug find_instrument could have: `if api_trade_available_flag:`, which drops False
find_instrument_flag_truthy(a) ==
    LET p0 == Put(EmptyDict, "query", a.query)
        p1 == IF bool_enum(a.instrument_kind) THEN Put(p0, "instrumentKind", a.instrument_kind[1].value) ELSE p0
        p2 == IF a.api_trade_available_flag = Some(TRUE) THEN Put(p1, "apiTradeAvailableFlag", TRUE) ELSE p1
    IN  [endpoint |-> "FindInstrument", payload |-> p2]

\* InstrumentsService.find_instrument
find_instrument(a) ==
    LET p0 == Put(EmptyDict, "query", a.query)
        p1 == IF bool_enum(a.instrument_kind) THEN Put(p0, "instrumentKind", a.instrument_kind[1].value) ELSE p0
        p2 == IF a.api_trade_available_flag /= NONE THEN Put(p1, "apiTradeAvailableFlag", a.api_trade_available_flag[1]) ELSE p1
    IN  [endpoint |-> "FindInstrument", payload |-> p2]

\* InstrumentsService.get_instrument_by
get_instrument_by(a) ==
    LET p0 == Put(EmptyDict, "idType", a.id_type.value)
        p1 == IF bool_str(a.class_code) THEN Put(p0, "classCode", a.class_code[1]) ELSE p0
        p2 == IF bool_str(a.id) THEN Put(p1, "id", a.id[1]) ELSE p1
    IN  [endpoint |-> "GetInstrumentBy", payload |-> p2]

\* InstrumentsService.get_assets
get_assets(a) ==
    LET p0 == EmptyDict
        p1 == IF bool_enum(a.asset_type) THEN Put(p0, "assetType", a.asset_type[1].value) ELSE p0
    IN  [endpoint |-> "GetAssets", payload |-> p1]

\* InstrumentsService.get_asset_by
get_asset_by(a) ==
    LET p0 == Put(EmptyDict, "assetUid", a.asset_uid)
    IN  [endpoint |-> "GetAssetBy", payload |-> p0]

\* InstrumentsService.get_asset_fundamentals
get_asset_fundamentals(a) ==
    LET p0 == Put(EmptyDict, "assets", a.assets)
    IN  [endpoint |-> "GetAssetFundamentals", payload |-> p0]

\* InstrumentsService.get_asset_reports
get_asset_reports(a) ==
    LET p0 == Put(EmptyDict, "instrumentId", a.instrument_id)
        p1 == IF bool_datetime(a.from_date) THEN Put(p0, "from", _format_datetime(a.from_date)[1]) ELSE p0
        p2 == IF bool_datetime(a.to_date) THEN Put(p1, "to", _format_datetime(a.to_date)[1]) ELSE p1
    IN  [endpoint |-> "GetAssetReports", payload |-> p2]

\* InstrumentsService.get_brands
get_brands(a) ==
    LET p0 == EmptyDict
        p1 == IF bool_dict(a.paging) THEN Put(p0, "paging", a.paging[1]) ELSE p0
    IN  [endpoint |-> "GetBrands", payload |-> p1]

\* InstrumentsService.get_brand_by
get_brand_by(a) ==
    LET p0 == Put(EmptyDict, "brandUid", a.brand_uid)
    IN  [endpoint |-> "GetBrandBy", payload |-> p0]

\* InstrumentsService.get_countries
get_countries(a) == [endpoint |-> "GetCountries", payload |-> EmptyDict]

\* InstrumentsService.get_consensus_forecasts
get_consensus_forecasts(a) ==
    LET p0 == EmptyDict
        p1 == IF bool_dict(a.paging) THEN Put(p0, "paging", a.paging[1]) ELSE p0
    IN  [endpoint |-> "GetConsensusForecasts", payload |-> p1]

\* InstrumentsService.get_forecast_by
get_forecast_by(a) ==
    LET p0 == Put(EmptyDict, "instrumentId", a.instrument_id)
    IN  [endpoint |-> "GetForecastBy", payload |-> p0]

\* InstrumentsService.get_insider_deals
get_insider_deals(a) ==
    LET p0 == Put(EmptyDict, "instrumentId", a.instrument_id)
        p1 == IF bool_datetime(a.from_date) THEN Put(p0, "from", _format_datetime(a.from_date)[1]) ELSE p0
        p2 == IF bool_datetime(a.to_date) THEN Put(p1, "to", _format_datetime(a.to_date)[1]) ELSE p1
    IN  [endpoint |-> "GetInsiderDeals", payload |-> p2]

\* InstrumentsService.get_risk_rates
get_risk_rates(a) ==
    LET p0 == Put(EmptyDict, "instrumentId", a.instrument_id)
    IN  [endpoint |-> "GetRiskRates", payload |-> p0]

\* InstrumentsService.trading_schedules
trading_schedules(a) ==
    LET p0 == EmptyDict
        p1 == IF bool_str(a.exchange) THEN Put(p0, "exchange", a.exchange[1]) ELSE p0
        p2 == IF bool_datetime(a.from_date) THEN Put(p1, "from", _format_datetime(a.from_date)[1]) ELSE p1
        p3 == IF bool_datetime(a.to_date) THEN Put(p2, "to", _format_datetime(a.to_date)[1]) ELSE p2
    IN  [endpoint |-> "TradingSchedules", payload |-> p3]

\* InstrumentsService.get_favorites
get_favorites(a) == [endpoint |-> "GetFavorites", payload |-> EmptyDict]

\* InstrumentsService.get_favorite_groups
get_favorite_groups(a) == [endpoint |-> "GetFavoriteGroups", payload |-> EmptyDict]

\* InstrumentsService.create_favorite_group
create_favorite_group(a) ==
    LET p0 == Put(EmptyDict, "name", a.name)
        p1 == IF bool_list(a.instruments) THEN Put(p0, "instruments", a.instruments[1]) ELSE p0
    IN  [endpoint |-> "CreateFavoriteGroup", payload |-> p1]

\* InstrumentsService.edit_favorites
edit_favorites(a) ==
    LET p0 == Put(Put(EmptyDict, "instruments", a.instruments), "actionType", a.action_type)
    IN  [endpoint |-> "EditFavorites", payload |-> p0]

\* InstrumentsService.delete_favorite_group
delete_favorite_group(a) ==
    LET p0 == Put(EmptyDict, "favoriteGroupId", a.favorite_group_id)
    IN  [endpoint |-> "DeleteFavoriteGroup", payload |-> p0]

\* AsyncInstrumentsService.bonds
async_bonds(a) ==
    LET p0 == Put(EmptyDict, "instrumentStatus", a.instrument_status.value)
    IN  [endpoint |-> "Bonds", payload |-> p0]

\* AsyncInstrumentsService.bond_by
async_bond_by(a) ==
    LET p0 == Put(EmptyDict, "idType", a.id_type.value)
        p1 == IF bool_str(a.class_code) THEN Put(p0, "classCode", a.class_code[1]) ELSE p0
        p2 == IF bool_str(a.id) THEN Put(p1, "id", a.id[1]) ELSE p1
    IN  [endpoint |-> "BondBy", payload |-> p2]

\* AsyncInstrumentsService.get_bond_coupons
async_get_bond_coupons(a) ==
    LET p0 == Put(EmptyDict, "instrumentId", a.instrument_id)
        p1 == IF bool_datetime(a.from_date) THEN Put(p0, "from", _format_datetime(a.from_date)[1]) ELSE p0
        p2 == IF bool_datetime(a.to_date) THEN Put(p1, "to", _format_datetime(a.to_date)[1]) ELSE p1
    IN  [endpoint |-> "GetBondCoupons", payload |-> p2]

\* AsyncInstrumentsService.get_bond_events
async_get_bond_events(a) ==
    LET p0 == Put(EmptyDict, "instrumentId", a.instrument_id)
        p1 == IF bool_datetime(a.from_date) THEN Put(p0, "from", _format_datetime(a.from_date)[1]) ELSE p0
        p2 == IF bool_datetime(a.to_date) THEN Put(p1, "to", _format_datetime(a.to_date)[1]) ELSE p1
        p3 == IF bool_str(a.event_type) THEN Put(p2, "eventType", a.event_type[1]) ELSE p2
    IN  [endpoint |-> "GetBondEvents", payload |-> p3]

\* AsyncInstrumentsService.get_accrued_interests
async_get_accrued_interests(a) ==
    LET p0 == Put(EmptyDict, "instrumentId", a.instrument_id)
        p1 == IF bool_datetime(a.from_date) THEN Put(p0, "from", _format_datetime(a.from_date)[1]) ELSE p0
        p2 == IF bool_datetime(a.to_date) THEN Put(p1, "to", _format_datetime(a.to_date)[1]) ELSE p1
    IN  [endpoint |-> "GetAccruedInterests", payload |-> p2]

\* AsyncInstrumentsService.shares
async_shares(a) ==
    LET p0 == Put(EmptyDict, "instrumentStatus", a.instrument_status.value)
    IN  [endpoint |-> "Shares", payload |-> p0]

\* AsyncInstrumentsService.share_by
async_share_by(a) ==
    LET p0 == Put(EmptyDict, "idType", a.id_type.value)
        p1 == IF bool_str(a.class_code) THEN Put(p0, "classCode", a.class_code[1]) ELSE p0
        p2 == IF bool_str(a.id) THEN Put(p1, "id", a.id[1]) ELSE p1
    IN  [endpoint |-> "ShareBy", payload |-> p2]

\* AsyncInstrumentsService.get_dividends
async_get_dividends(a) ==
    LET p0 == Put(EmptyDict, "instrumentId", a.instrument_id)
        p1 == IF bool_datetime(a.from_date) THEN Put(p0, "from", _format_datetime(a.from_date)[1]) ELSE p0
        p2 == IF bool_datetime(a.to_date) THEN Put(p1, "to", _format_datetime(a.to_date)[1]) ELSE p1
    IN  [endpoint |-> "GetDividends", payload |-> p2]

\* AsyncInstrumentsService.etfs
async_etfs(a) ==
    LET p0 == Put(EmptyDict, "instrumentStatus", a.instrument_status.value)
    IN  [endpoint |-> "Etfs", payload |-> p0]

\* AsyncInstrumentsService.etf_by
async_etf_by(a) ==
    LET p0 == Put(EmptyDict, "idType", a.id_type.value)
        p1 == IF bool_str(a.class_code) THEN Put(p0, "classCode", a.class_code[1]) ELSE p0
        p2 == IF bool_str(a.id) THEN Put(p1, "id", a.id[1]) ELSE p1
    IN  [endpoint |-> "EtfBy", payload |-> p2]

\* AsyncInstrumentsService.currencies
async_currencies(a) ==
    LET p0 == Put(EmptyDict, "instrumentStatus", a.instrument_status.value)
    IN  [endpoint |-> "Currencies", payload |-> p0]

\* AsyncInstrumentsService.currency_by
async_currency_by(a) ==
    LET p0 == Put(EmptyDict, "idType", a.id_type.value)
        p1 == IF bool_str(a.class_code) THEN Put(p0, "classCode", a.class_code[1]) ELSE p0
        p2 == IF bool_str(a.id) THEN Put(p1, "id", a.id[1]) ELSE p1
    IN  [endpoint |-> "CurrencyBy", payload |-> p2]

\* AsyncInstrumentsService.futures
async_futures(a) ==
    LET p0 == Put(EmptyDict, "instrumentStatus", a.instrument_status.value)
    IN  [endpoint |-> "Futures", payload |-> p0]

\* AsyncInstrumentsService.future_by
async_future_by(a) ==
    LET p0 == Put(EmptyDict, "idType", a.id_type.value)
        p1 == IF bool_str(a.class_code) THEN Put(p0, "classCode", a.class_code[1]) ELSE p0
        p2 == IF bool_str(a.id) THEN Put(p1, "id", a.id[1]) ELSE p1
    IN  [endpoint |-> "FutureBy", payload |-> p2]

\* AsyncInstrumentsService.get_futures_margin
async_get_futures_margin(a) ==
    LET p0 == Put(EmptyDict, "instrumentId", a.instrument_id)
    IN  [endpoint |-> "GetFuturesMargin", payload |-> p0]

\* AsyncInstrumentsService.options
async_options(a) ==
    LET p0 == Put(EmptyDict, "instrumentStatus", a.instrument_status.value)
    IN  [endpoint |-> "Options", payload |-> p0]

\* AsyncInstrumentsService.option_by
async_option_by(a) ==
    LET p0 == Put(EmptyDict, "idType", a.id_type.value)
        p1 == IF bool_str(a.class_code) THEN Put(p0, "classCode", a.class_code[1]) ELSE p0
        p2 == IF bool_str(a.id) THEN Put(p1, "id", a.id[1]) ELSE p1
    IN  [endpoint |-> "OptionBy", payload |-> p2]

\* AsyncInstrumentsService.options_by
async_options_by(a) ==
    LET p0 == EmptyDict
        p1 == IF bool_str(a.basic_asset_uid) THEN Put(p0, "basicAssetUid", a.basic_asset_uid[1]) ELSE p0
        p2 == IF bool_str(a.basic_asset_position_uid) THEN Put(p1, "basicAssetPositionUid", a.basic_asset_position_uid[1]) ELSE p1
    IN  [endpoint |-> "OptionsBy", payload |-> p2]

\* AsyncInstrumentsService.structured_notes
async_structured_notes(a) ==
    LET p0 == Put(EmptyDict, "instrumentStatus", a.instrument_status.value)
    IN  [endpoint |-> "StructuredNotes", payload |-> p0]

\* AsyncInstrumentsService.structured_note_by
async_structured_note_by(a) ==
    LET p0 == Put(EmptyDict, "idType", a.id_type.value)
        p1 == IF bool_str(a.class_code) THEN Put(p0, "classCode", a.class_code[1]) ELSE p0
        p2 == IF bool_str(a.id) THEN Put(p1, "id", a.id[1]) ELSE p1
    IN  [endpoint |-> "StructuredNoteBy", payload |-> p2]

\* AsyncInstrumentsService.indicatives
async_indicatives(a) == [endpoint |-> "Indicatives", payload |-> EmptyDict]

\* AsyncInstrumentsService.find_instrument
async_find_instrument(a) ==
    LET p0 == Put(EmptyDict, "query", a.query)
        p1 == IF bool_enum(a.instrument_kind) THEN Put(p0, "instrumentKind", a.instrument_kind[1].value) ELSE p0
        p2 == IF a.api_trade_available_flag /= NONE THEN Put(p1, "apiTradeAvailableFlag", a.api_trade_available_flag[1]) ELSE p1
    IN  [endpoint |-> "FindInstrument", payload |-> p2]

\* AsyncInstrumentsService.get_instrument_by
async_get_instrument_by(a) ==
    LET p0 == Put(EmptyDict, "idType", a.id_type.value)
        p1 == IF bool_str(a.class_code) THEN Put(p0, "classCode", a.class_code[1]) ELSE p0
        p2 == IF bool_str(a.id) THEN Put(p1, "id", a.id[1]) ELSE p1
    IN  [endpoint |-> "GetInstrumentBy", payload |-> p2]

\* AsyncInstrumentsService.get_assets
async_get_assets(a) ==
    LET p0 == EmptyDict
        p1 == IF bool_enum(a.asset_type) THEN Put(p0, "assetType", a.asset_type[1].value) ELSE p0
    IN  [endpoint |-> "GetAssets", payload |-> p1]

\* AsyncInstrumentsService.get_asset_by
async_get_asset_by(a) ==
    LET p0 == Put(EmptyDict, "assetUid", a.asset_uid)
    IN  [endpoint |-> "GetAssetBy", payload |-> p0]

\* AsyncInstrumentsService.get_asset_fundamentals
async_get_asset_fundamentals(a) ==
    LET p0 == Put(EmptyDict, "assets", a.assets)
    IN  [endpoint |-> "GetAssetFundamentals", payload |-> p0]

\* AsyncInstrumentsService.get_asset_reports
async_get_asset_reports(a) ==
    LET p0 == Put(EmptyDict, "instrumentId", a.instrument_id)
        p1 == IF bool_datetime(a.from_date) THEN Put(p0, "from", _format_datetime(a.from_date)[1]) ELSE p0
        p2 == IF bool_datetime(a.to_date) THEN Put(p1, "to", _format_datetime(a.to_date)[1]) ELSE p1
    IN  [endpoint |-> "GetAssetReports", payload |-> p2]

\* AsyncInstrumentsService.get_brands
async_get_brands(a) ==
    LET p0 == EmptyDict
        p1 == IF bool_dict(a.paging) THEN Put(p0, "paging", a.paging[1]) ELSE p0
    IN  [endpoint |-> "GetBrands", payload |-> p1]

\* AsyncInstrumentsService.get_brand_by
async_get_brand_by(a) ==
    LET p0 == Put(EmptyDict, "brandUid", a.brand_uid)
    IN  [endpoint |-> "GetBrandBy", payload |-> p0]

\* AsyncInstrumentsService.get_countries
async_get_countries(a) == [endpoint |-> "GetCountries", payload |-> EmptyDict]

\* AsyncInstrumentsService.get_consensus_forecasts
async_get_consensus_forecasts(a) ==
    LET p0 == EmptyDict
        p1 == IF bool_dict(a.paging) THEN Put(p0, "paging", a.paging[1]) ELSE p0
    IN  [endpoint |-> "GetConsensusForecasts", payload |-> p1]

\* AsyncInstrumentsService.get_forecast_by
async_get_forecast_by(a) ==
    LET p0 == Put(EmptyDict, "instrumentId", a.instrument_id)
    IN  [endpoint |-> "GetForecastBy", payload |-> p0]

\* AsyncInstrumentsService.get_insider_deals
async_get_insider_deals(a) ==
    LET p0 == Put(EmptyDict, "instrumentId", a.instrument_id)
        p1 == IF bool_datetime(a.from_date) THEN Put(p0, "from", _format_datetime(a.from_date)[1]) ELSE p0
        p2 == IF bool_datetime(a.to_date) THEN Put(p1, "to", _format_datetime(a.to_date)[1]) ELSE p1
    IN  [endpoint |-> "GetInsiderDeals", payload |-> p2]

\* AsyncInstrumentsService.get_risk_rates
async_get_risk_rates(a) ==
    LET p0 == Put(EmptyDict, "instrumentId", a.instrument_id)
    IN  [endpoint |-> "GetRiskRates", payload |-> p0]

\* AsyncInstrumentsService.trading_schedules
async_trading_schedules(a) ==
    LET p0 == EmptyDict
        p1 == IF bool_str(a.exchange) THEN Put(p0, "exchange", a.exchange[1]) ELSE p0
        p2 == IF bool_datetime(a.from_date) THEN Put(p1, "from", _format_datetime(a.from_date)[1]) ELSE p1
        p3 == IF bool_datetime(a.to_date) THEN Put(p2, "to", _format_datetime(a.to_date)[1]) ELSE p2
    IN  [endpoint |-> "TradingSchedules", payload |-> p3]

\* AsyncInstrumentsService.get_favorites
async_get_favorites(a) == [endpoint |-> "GetFavorites", payload |-> EmptyDict]

\* AsyncInstrumentsService.get_favorite_groups
async_get_favorite_groups(a) == [endpoint |-> "GetFavoriteGroups", payload |-> EmptyDict]

\* AsyncInstrumentsService.create_favorite_group
async_create_favorite_group(a) ==
    LET p0 == Put(EmptyDict, "name", a.name)
        p1 == IF bool_list(a.instruments) THEN Put(p0, "instruments", a.instruments[1]) ELSE p0
    IN  [endpoint |-> "CreateFavoriteGroup", payload |-> p1]

\* AsyncInstrumentsService.edit_favorites
async_edit_favorites(a) ==
    LET p0 == Put(Put(EmptyDict, "instruments", a.instruments), "actionType", a.action_type)
    IN  [endpoint |-> "EditFavorites", payload |-> p0]

\* AsyncInstrumentsService.delete_favorite_group
async_delete_favorite_group(a) ==
    LET p0 == Put(EmptyDict, "favoriteGroupId", a.favorite_group_id)
    IN  [endpoint |-> "DeleteFavoriteGroup", payload |-> p0]

\* the arguments each endpoint method takes (its signature), over the sample values
MethodArgs ==
    "bonds" :> [instrument_status : InstrumentStatusMembers] @@
    "bond_by" :> [id_type : InstrumentIdTypeMembers, class_code : Optional(Strs), id : Optional(Strs)] @@
    "get_bond_coupons" :> [instrument_id : Strs, from_date : Optional(DatetimeSamples), to_date : Optional(DatetimeSamples)] @@
    "get_bond_events" :> [instrument_id : Strs, from_date : Optional(DatetimeSamples), to_date : Optional(DatetimeSamples), event_type : Optional(Strs)] @@
    "get_accrued_interests" :> [instrument_id : Strs, from_date : Optional(DatetimeSamples), to_date : Optional(DatetimeSamples)] @@
    "shares" :> [instrument_status : InstrumentStatusMembers] @@
    "share_by" :> [id_type : InstrumentIdTypeMembers, class_code : Optional(Strs), id : Optional(Strs)] @@
    "get_dividends" :> [instrument_id : Strs, from_date : Optional(DatetimeSamples), to_date : Optional(DatetimeSamples)] @@
    "etfs" :> [instrument_status : InstrumentStatusMembers] @@
    "etf_by" :> [id_type : InstrumentIdTypeMembers, class_code : Optional(Strs), id : Optional(Strs)] @@
    "currencies" :> [instrument_status : InstrumentStatusMembers] @@
    "currency_by" :> [id_type : InstrumentIdTypeMembers, class_code : Optional(Strs), id : Optional(Strs)] @@
    "futures" :> [instrument_status : InstrumentStatusMembers] @@
    "future_by" :> [id_type : InstrumentIdTypeMembers, class_code : Optional(Strs), id : Optional(Strs)] @@
    "get_futures_margin" :> [instrument_id : Strs] @@
    "options" :> [instrument_status : InstrumentStatusMembers] @@
    "option_by" :> [id_type : InstrumentIdTypeMembers, class_code : Optional(Strs), id : Optional(Strs)] @@
    "options_by" :> [basic_asset_uid : Optional(Strs), basic_asset_position_uid : Optional(Strs)] @@
    "structured_notes" :> [instrument_status : InstrumentStatusMembers] @@
    "structured_note_by" :> [id_type : InstrumentIdTypeMembers, class_code : Optional(Strs), id : Optional(Strs)] @@
    "indicatives" :> {NoArgs} @@
    "find_instrument" :> [query : Strs, instrument_kind : Optional(InstrumentTypeMembers), api_trade_available_flag : Optional(BOOLEAN)] @@
    "get_instrument_by" :> [id_type : InstrumentIdTypeMembers, class_code : Optional(Strs), id : Optional(Strs)] @@
    "get_assets" :> [asset_type : Optional(AssetTypeMembers)] @@
    "get_asset_by" :> [asset_uid : Strs] @@
    "get_asset_fundamentals" :> [assets : StrLists] @@
    "get_asset_reports" :> [instrument_id : Strs, from_date : Optional(DatetimeSamples), to_date : Optional(DatetimeSamples)] @@
    "get_brands" :> [paging : Optional(Pagings)] @@
    "get_brand_by" :> [brand_uid : Strs] @@
    "get_countries" :> {NoArgs} @@
    "get_consensus_forecasts" :> [paging : Optional(Pagings)] @@
    "get_forecast_by" :> [instrument_id : Strs] @@
    "get_insider_deals" :> [instrument_id : Strs, from_date : Optional(DatetimeSamples), to_date : Optional(DatetimeSamples)] @@
    "get_risk_rates" :> [instrument_id : Strs] @@
    "trading_schedules" :> [exchange : Optional(Strs), from_date : Optional(DatetimeSamples), to_date : Optional(DatetimeSamples)] @@
    "get_favorites" :> {NoArgs} @@
    "get_favorite_groups" :> {NoArgs} @@
    "create_favorite_group" :> [name : Strs, instruments : Optional(InstrumentLists)] @@
    "edit_favorites" :> [instruments : InstrumentLists, action_type : Strs] @@
    "delete_favorite_group" :> [favorite_group_id : Strs]

MethodNames == DOMAIN MethodArgs

\* InstrumentsService: the request the method named m passes to _request for the arguments a
sync_call(m, a) ==
    CASE m = "bonds" -> bonds(a)
      [] m = "bond_by" -> bond_by(a)
      [] m = "get_bond_coupons" -> get_bond_coupons(a)
      [] m = "get_bond_events" -> get_bond_events(a)
      [] m = "get_accrued_interests" -> get_accrued_interests(a)
      [] m = "shares" -> shares(a)
      [] m = "share_by" -> share_by(a)
      [] m = "get_dividends" -> get_dividends(a)
      [] m = "etfs" -> etfs(a)
      [] m = "etf_by" -> etf_by(a)
      [] m = "currencies" -> currencies(a)
      [] m = "currency_by" -> currency_by(a)
      [] m = "futures" -> futures(a)
      [] m = "future_by" -> future_by(a)
      [] m = "get_futures_margin" -> get_futures_margin(a)
      [] m = "options" -> options(a)
      [] m = "option_by" -> option_by(a)
      [] m = "options_by" -> options_by(a)
      [] m = "structured_notes" -> structured_notes(a)
      [] m = "structured_note_by" -> structured_note_by(a)
      [] m = "indicatives" -> indicatives(a)
      [] m = "find_instrument" -> find_instrument(a)
      [] m = "get_instrument_by" -> get_instrument_by(a)
      [] m = "get_assets" -> get_assets(a)
      [] m = "get_asset_by" -> get_asset_by(a)
      [] m = "get_asset_fundamentals" -> get_asset_fundamentals(a)
      [] m = "get_asset_reports" -> get_asset_reports(a)
      [] m = "get_brands" -> get_brands(a)
      [] m = "get_brand_by" -> get_brand_by(a)
      [] m = "get_countries" -> get_countries(a)
      [] m = "get_consensus_forecasts" -> get_consensus_forecasts(a)
      [] m = "get_forecast_by" -> get_forecast_by(a)
      [] m = "get_insider_deals" -> get_insider_deals(a)
      [] m = "get_risk_rates" -> get_risk_rates(a)
      [] m = "trading_schedules" -> trading_schedules(a)
      [] m = "get_favorites" -> get_favorites(a)
      [] m = "get_favorite_groups" -> get_favorite_groups(a)
      [] m = "create_favorite_group" -> create_favorite_group(a)
      [] m = "edit_favorites" -> edit_favorites(a)
      [] m = "delete_favorite_group" -> delete_favorite_group(a)

\* AsyncInstrumentsService: the request the method named m passes to _request for the arguments a
async_call(m, a) ==
    CASE m = "bonds" -> async_bonds(a)
      [] m = "bond_by" -> async_bond_by(a)
      [] m = "get_bond_coupons" -> async_get_bond_coupons(a)
      [] m = "get_bond_events" -> async_get_bond_events(a)
      [] m = "get_accrued_interests" -> async_get_accrued_interests(a)
      [] m = "shares" -> async_shares(a)
      [] m = "share_by" -> async_share_by(a)
      [] m = "get_dividends" -> async_get_dividends(a)
      [] m = "etfs" -> async_etfs(a)
      [] m = "etf_by" -> async_etf_by(a)
      [] m = "currencies" -> async_currencies(a)
      [] m = "currency_by" -> async_currency_by(a)
      [] m = "futures" -> async_futures(a)
      [] m = "future_by" -> async_future_by(a)
      [] m = "get_futures_margin" -> async_get_futures_margin(a)
      [] m = "options" -> async_options(a)
      [] m = "option_by" -> async_option_by(a)
      [] m = "options_by" -> async_options_by(a)
      [] m = "structured_notes" -> async_structured_notes(a)
      [] m = "structured_note_by" -> async_structured_note_by(a)
      [] m = "indicatives" -> async_indicatives(a)
      [] m = "find_instrument" -> async_find_instrument(a)
      [] m = "get_instrument_by" -> async_get_instrument_by(a)
      [] m = "get_assets" -> async_get_assets(a)
      [] m = "get_asset_by" -> async_get_asset_by(a)
      [] m = "get_asset_fundamentals" -> async_get_asset_fundamentals(a)
      [] m = "get_asset_reports" -> async_get_asset_reports(a)
      [] m = "get_brands" -> async_get_brands(a)
      [] m = "get_brand_by" -> async_get_brand_by(a)
      [] m = "get_countries" -> async_get_countries(a)
      [] m = "get_consensus_forecasts" -> async_get_consensus_forecasts(a)
      [] m = "get_forecast_by" -> async_get_forecast_by(a)
      [] m = "get_insider_deals" -> async_get_insider_deals(a)
      [] m = "get_risk_rates" -> async_get_risk_rates(a)
      [] m = "trading_schedules" -> async_trading_schedules(a)
      [] m = "get_favorites" -> async_get_favorites(a)
      [] m = "get_favorite_groups" -> async_get_favorite_groups(a)
      [] m = "create_favorite_group" -> async_create_favorite_group(a)
      [] m = "edit_favorites" -> async_edit_favorites(a)
      [] m = "delete_favorite_group" -> async_delete_favorite_group(a)

(***************************************************************************)
(* The dispatchers: InstrumentsService (requests.Session) and              *)
(* AsyncInstrumentsService (a lazily created httpx.AsyncClient)            *)
(***************************************************************************)
MaxTasks == 4

\* the caller's operations on one client instance, each an endpoint call or a close()
Tasks == 1..MaxTasks

BASE_URL == "https://invest-public-api.tbank.ru/rest"
SERVICE_PATH == "/tinkoff.public.invest.api.contract.v1.InstrumentsService"

\* the token and timeout a caller constructs the client with
Credentials == {[token |-> "t.alice", timeout |-> 30], [token |-> "t.bob", timeout |-> 5]}

\* the headers both clients are constructed with
auth_headers(tok) ==
    ("Authorization" :> <<"Bearer ", tok>>) @@ ("Content-Type" :> <<"application/json">>)

\* InstrumentsService.__init__: requests.Session() with the headers; pool is the
\* state of the session's connection pool, "empty" or "live"; cookies is the session's
\* cookie jar (the names of the cookies in it)
new_session(tok) == [headers |-> auth_headers(tok), pool |-> "empty", cookies |-> {}]

\* a bug the client property could have: the client is left with httpx's default timeout
new_async_client_default_timeout(tok, tmo) ==
    [state |-> "open", headers |-> auth_headers(tok), timeout |-> 5, cookies |-> {}]

\* httpx.AsyncClient(headers=..., timeout=self.timeout); every httpx client has a cookie
\* jar of its own
new_async_client(tok, tmo) ==
    [state |-> "open", headers |-> auth_headers(tok), timeout |-> tmo, cookies |-> {}]

\* url = f"{self.BASE_URL}{self.SERVICE_PATH}/{endpoint}"
url_of(endpoint) == <<BASE_URL, SERVICE_PATH, "/", endpoint>>

\* a bug _request could have: json=payload, so that no body is sent for None
json_as_given(payload) == payload

\* json=payload or {}: the JSON body of the request, for the Optional payload _request is
\* called with; a request with json=None would have no body (NONE)
json_or_empty(payload) ==
    IF payload = NONE THEN Some(EmptyDict)
    ELSE IF DOMAIN payload[1] = {} THEN Some(EmptyDict)
    ELSE payload

\* InstrumentsService._request: self.session.post(url, json=payload or {}, timeout=self.timeout).
\* A requests.Session sends the cookies of its jar with every request.
sync_post(sess, tmo, endpoint, payload) ==
    [via |-> 0, verb |-> "POST", url |-> url_of(endpoint), json |-> json_or_empty(payload),
     headers |-> sess.headers, timeout |-> tmo, cookies |-> sess.cookies]

\* AsyncInstrumentsService._request: self.client.post(url, json=payload or {}), on the
\* httpx client c, which is the ref-th the instance created
async_post(ref, c, endpoint, payload) ==
    [via |-> ref, verb |-> "POST", url |-> url_of(endpoint), json |-> json_or_empty(payload),
     headers |-> c.headers, timeout |-> c.timeout, cookies |-> c.cookies]

\* the endpoint calls of a fan-out (example_12_async_concurrent_fetch), in call order
DispatchCalls ==
    LET base == [cls |-> "InstrumentStatus", name |-> "INSTRUMENT_STATUS_BASE",
                 value |-> "INSTRUMENT_STATUS_BASE"]
    IN  <<[method |-> "bonds", args |-> [instrument_status |-> base]],
          [method |-> "shares", args |-> [instrument_status |-> base]],
          [method |-> "etfs", args |-> [instrument_status |-> base]],
          [method |-> "currencies", args |-> [instrument_status |-> base]],
          [method |-> "futures", args |-> [instrument_status |-> base]]>>

\* the call task t makes when it is an endpoint call
TaskCall(t) == DispatchCalls[((t - 1) % Len(DispatchCalls)) + 1]

(***************************************************************************)
(* The transport's answers.  A body is a sequence of tokens; a JSON object *)
(* body is { key : value }.                                                *)
(***************************************************************************)
JsonBody(endpoint) == <<"{", "endpoint", ":", endpoint, "}">>
HtmlBody == <<"<html>", "Bad Gateway", "</html>">>

Statuses == {200, 300, 404}

\* a connection-level failure: no response is received
TransportErrors == {"ConnectError", "Timeout"}

\* set_cookie: the names of the cookies a response sets (its Set-Cookie headers)
Outcomes(endpoint) ==
    {[type |-> "response", status |-> s, text |-> b, error |-> "", set_cookie |-> {}] :
        s \in Statuses, b \in {JsonBody(endpoint), HtmlBody}}
    \cup {[type |-> "response", status |-> 200, text |-> JsonBody(endpoint), error |-> "",
            set_cookie |-> {"route"}]}
    \cup {[type |-> "error", status |-> 0, text |-> <<>>, error |-> e, set_cookie |-> {}] :
            e \in TransportErrors}

\* requests.Session.send and httpx's client both put the cookies a response sets into
\* the jar of the session or client the request went through
extract_cookies(jar, o) == IF o.type = "response" THEN jar \cup o.set_cookie ELSE jar

\* a bug the decoding could have: the decoded body is returned inside an envelope
json_loads_enveloped(text) ==
    IF Len(text) = 5 /\ text[1] = "{" /\ text[3] = ":" /\ text[5] = "}"
    THEN Returned(Some("data" :> (text[2] :> text[4])))
    ELSE ValueError

\* response.json(): the decoded body, or a decode error (a ValueError in both libraries)
json_loads(text) ==
    IF Len(text) = 5 /\ text[1] = "{" /\ text[3] = ":" /\ text[5] = "}"
    THEN Returned(Some(text[2] :> text[4]))
    ELSE ValueError

\* requests' Response.raise_for_status raises HTTPError for 4xx and 5xx only
requests_raise_for_status(status) == 400 <= status /\ status < 600

\* httpx's Response.raise_for_status raises HTTPStatusError unless is_success (2xx)
httpx_raise_for_status(status) == ~(200 <= status /\ status <= 299)

\* what a call gives its caller
Return(v) == [kind |-> "return", exc |-> "", msg |-> <<>>, value |-> v, cause |-> ""]
Raise(exc, msg, cause) == [kind |-> "raise", exc |-> exc, msg |-> msg, value |-> NONE, cause |-> cause]

\* InstrumentsService._request, `except requests.exceptions.HTTPError`: the message
sync_error_message(o) ==
    LET error_data == json_loads(o.text)
    IN  IF error_data.raised THEN <<"HTTP ", o.status, ": ", o.text>>
        ELSE <<"API error: ", error_data.value[1]>>

\* a bug _request could have: a timeout is raised with a message prefix of its own
sync_request_timeout_prefix(o) ==
    IF o.type = "error"
    THEN Raise("TBankInvestAPIError",
               <<IF o.error = "Timeout" THEN "Request timed out: " ELSE "Request failed: ",
                 o.error>>, o.error)
    ELSE IF requests_raise_for_status(o.status)
    THEN Raise("TBankInvestAPIError", sync_error_message(o), "HTTPError")
    ELSE LET data == json_loads(o.text)
         IN  IF data.raised
             THEN Raise("TBankInvestAPIError", <<"Request failed: ", "JSONDecodeError">>,
                        "JSONDecodeError")
             ELSE Return(data.value)

\* InstrumentsService._request from the transport's answer on.  A body that does not
\* decode raises requests.exceptions.JSONDecodeError, which is a RequestException.
sync_request(o) ==
    IF o.type = "error"
    THEN Raise("TBankInvestAPIError", <<"Request failed: ", o.error>>, o.error)
    ELSE IF requests_raise_for_status(o.status)
    THEN Raise("TBankInvestAPIError", sync_error_message(o), "HTTPError")
    ELSE LET data == json_loads(o.text)
         IN  IF data.raised
             THEN Raise("TBankInvestAPIError", <<"Request failed: ", "JSONDecodeError">>,
                        "JSONDecodeError")
             ELSE Return(data.value)

\* AsyncInstrumentsService._request, `except httpx.HTTPStatusError`: the message
async_error_message(o) ==
    LET error_data == json_loads(o.text)
    IN  IF error_data.raised THEN <<"HTTP ", o.status, ": ", o.text>>
        ELSE <<"API error: ", error_data.value[1]>>

\* AsyncInstrumentsService._request from the transport's answer on.  A body that does
\* not decode raises json.JSONDecodeError, which no except clause catches.
async_request(o) ==
    IF o.type = "error"
    THEN Raise("TBankInvestAPIError", <<"Request failed: ", o.error>>, o.error)
    ELSE IF httpx_raise_for_status(o.status)
    THEN Raise("TBankInvestAPIError", async_error_message(o), "HTTPStatusError")
    ELSE LET data == json_loads(o.text)
         IN  IF data.raised THEN Raise("JSONDecodeError", <<"Expecting value">>, "")
             ELSE Return(data.value)

\* httpx refuses a request on a closed client before anything is sent
ClientClosedError ==
    Raise("RuntimeError", <<"Cannot send a request, as the client has been closed.">>, "")

IdleTask ==
    [pc |-> "idle", op |-> "none", after_close |-> FALSE, during_close |-> FALSE,
     posts |-> 0, sent |-> <<>>, outcome |-> NONE, result |-> NONE]

\* the caller starts its operations in the order it wrote them: task t can start when
\* it has not started and every task before it has
CanStart(t) ==
    /\ tasks[t].pc = "idle"
    /\ \A u \in Tasks : u < t => tasks[u].op /= "none"

\* a bug _request could have: a failed request is sent again
finish_retry(ts, t, o, r) ==
    IF r.kind = "raise" /\ ts[t].posts < 2
    THEN [ts EXCEPT ![t].pc = "idle"]
    ELSE [ts EXCEPT ![t].pc = "done", ![t].outcome = Some(o), ![t].result = Some(r)]

\* a bug _request could have: a failure fails every request in flight on the client
finish_fails_all(ts, t, o, r) ==
    [u \in DOMAIN ts |->
        IF u = t THEN [ts[u] EXCEPT !.pc = "done", !.outcome = Some(o), !.result = Some(r)]
        ELSE IF r.kind = "raise" /\ ts[u].pc = "awaiting"
             THEN [ts[u] EXCEPT !.pc = "done", !.result = Some(r)]
             ELSE ts[u]]

\* _request returns or raises: the call of task t ends with r, the answer o consumed
finish(ts, t, o, r) ==
    [ts EXCEPT ![t].pc = "done", ![t].outcome = Some(o), ![t].result = Some(r)]

\* the session after session.post got the answer o: a response leaves its connection in
\* the pool and its cookies in the jar
session_after_post(s, o) ==
    IF o.type = "response"
    THEN [s EXCEPT !.pool = "live", !.cookies = extract_cookies(@, o)]
    ELSE s

\* a bug the client property could have: a new httpx client for every access
client_is_none_always(c) == TRUE

\* AsyncInstrumentsService.client: `if self._client is None:`
client_is_none(c) == c = NONE

\* a bug Session.close could have: the session is marked, and so changed, by every close
session_close_marks(s) == [s EXCEPT !.pool = "closed"]

\* requests.Session.close(): every adapter is closed, which drops the pooled connections;
\* nothing else of the session changes
session_close(s) == [s EXCEPT !.pool = "empty"]

\* httpx.AsyncClient.aclose(): a client not yet closed is marked closed and its transport
\* is closed; on a closed client nothing happens
aclose(c) == IF c.state = "closed" THEN c ELSE [c EXCEPT !.state = "closed"]

\* a bug close() could have: the closed client is left in self._client
client_after_close_kept == _client

\* AsyncInstrumentsService.close: self._client = None
client_after_close == NONE

\* a bug __exit__ could have: it returns True, which tells the with statement to
\* swallow the exception
exit_returns_true == Some(TRUE)

\* __exit__ / __aexit__ end without a return statement: they return None
exit_returns == NONE

\* the with statement after __exit__ returned ret: the exception the block raised is
\* raised again unless ret is true
with_propagates(r, ret) ==
    IF r.kind = "raise" /\ ~(ret /= NONE /\ ret[1] = TRUE) THEN Some(r) ELSE NONE

\* the keyword parameters of InstrumentsService.__init__ and of
\* AsyncInstrumentsService.__init__, besides self
InitParams == {"token", "timeout"}

\* the keyword arguments a caller gives the constructor besides token and timeout:
\* none, or those of samples.py
CtorExtras == {EmptyDict, [sandbox |-> TRUE, verify_ssl |-> FALSE], [sandbox |-> FALSE]}

\* Python binds the keyword arguments of a constructor call: a keyword that names no
\* parameter of __init__ raises TypeError, and no instance is made
construct(extra) ==
    IF DOMAIN extra \subseteq InitParams
    THEN Return(Some("instance"))
    ELSE Raise("TypeError",
               <<"__init__() got an unexpected keyword argument ",
                 CHOOSE k \in DOMAIN extra \ InitParams :
                     (k = "sandbox" \/ "sandbox" \notin DOMAIN extra)>>, "")

\* asyncio.gather(*calls, return_exceptions=True): one result or exception per call,
\* in call order
gather_results(ts) == [t \in DOMAIN ts |-> ts[t].result[1]]

(***************************************************************************)
(* common/utils.py: boolean environment variables.  A string here is the   *)
(* sequence of its characters, so that str.lower() is computed.            *)
(***************************************************************************)
UpperCase == <<"A", "B", "C", "D", "E", "F", "G", "H", "I", "J", "K", "L", "M",
               "N", "O", "P", "Q", "R", "S", "T", "U", "V", "W", "X", "Y", "Z">>
LowerCase == <<"a", "b", "c", "d", "e", "f", "g", "h", "i", "j", "k", "l", "m",
               "n", "o", "p", "q", "r", "s", "t", "u", "v", "w", "x", "y", "z">>

\* str.lower() on one character: an upper-case letter becomes its lower-case letter,
\* every other character stays
lower_char(ch) ==
    IF \E i \in DOMAIN UpperCase : UpperCase[i] = ch
    THEN LowerCase[CHOOSE i \in DOMAIN UpperCase : UpperCase[i] = ch]
    ELSE ch

\* str.lower()
str_lower(str) == [i \in DOMAIN str |-> lower_char(str[i])]

\* ("true", "yes", "on", "1")
TruthyWords == {<<"t", "r", "u", "e">>, <<"y", "e", "s">>, <<"o", "n">>, <<"1">>}

\* a bug is_true could have: the value is compared as it is
is_true_case_sensitive(env_val) ==
    IF env_val = NONE THEN FALSE ELSE env_val[1] \in TruthyWords

\* is_true(env_val: str | None)
is_true(env_val) ==
    IF env_val = NONE THEN FALSE ELSE str_lower(env_val[1]) \in TruthyWords

\* the parameter required of get_bool_env_var, True when the caller leaves it out
bind_required(given) == IF "required" \in DOMAIN given THEN given.required ELSE TRUE

\* get_bool_env_var(var_name, required): os.environ[var_name] raises KeyError for a
\* variable that is not set
get_bool_env_var(env, var_name, required) ==
    IF var_name \in DOMAIN env
    THEN Return(is_true(Some(env[var_name])))
    ELSE IF required
         THEN Raise("ValueError",
                    <<"The '", var_name, "' environment variable is not set.">>, "")
         ELSE Return(FALSE)

\* the variables a process environment always has
BaseEnviron == [PATH |-> <<"/", "b", "i", "n">>]

\* the two cases of a character: itself, and for a letter its other case
BothCases(ch) ==
    {ch} \cup {UpperCase[k] : k \in {j \in DOMAIN LowerCase : LowerCase[j] = ch}}
         \cup {LowerCase[k] : k \in {j \in DOMAIN UpperCase : UpperCase[j] = ch}}

\* the spellings of the word w in every mix of upper and lower case
CaseVariants(w) ==
    {str \in [DOMAIN w -> UNION {BothCases(w[i]) : i \in DOMAIN w}] :
        \A i \in DOMAIN w : str[i] \in BothCases(w[i])}

\* the names asked for, and values a variable may be set to: the truthy words in every
\* mix of cases, and values that are none of them
EnvNames == {"SANDBOX", "DEBUG"}
EnvValues ==
    UNION {CaseVariants(w) : w \in TruthyWords}
    \cup {<<>>, <<"0">>, <<"2">>, <<"1", "1">>, <<"n", "o">>, <<"N", "O">>, <<"o", "f", "f">>,
          <<"f", "a", "l", "s", "e">>, <<"t">>, <<"y">>, <<"t", "r", "u">>,
          <<" ", "t", "r", "u", "e">>, <<"t", "r", "u", "e", " ">>, <<"T", "r", "u", "e", "!">>,
          <<"y", "e", "s", "s">>, <<"o", "n", "e">>}

(***************************************************************************)
(* The specifications share the variables; each leaves the others'         *)
(* at rest.                                                                *)
(***************************************************************************)
vars == <<dt_vars, pl_vars, d_vars, cl_vars, ev_vars>>

DIdle ==
    /\ kind = "none"
    /\ token = ""
    /\ timeout = 0
    /\ session = NONE
    /\ _client = NONE
    /\ httpx_clients = <<>>
    /\ tasks = <<>>
    /\ close_returned = FALSE
    /\ gathered = NONE

DtIdle ==
    /\ dt_pc = "start"
    /\ dt_in = NONE
    /\ dt_str = NONE
    /\ dt_out = Returned(NONE)

PlIdle ==
    /\ pl_pc = "start"
    /\ call = NONE
    /\ request = NONE

EvIdle ==
    /\ ev_pc = "start"
    /\ environ = BaseEnviron
    /\ ev_call = NONE
    /\ ev_result = NONE

ClIdle ==
    /\ cl_pc = "start"
    /\ cl_call = NONE
    /\ cl_instance = NONE
    /\ cl_exit = NONE
    /\ cl_request = NONE
    /\ cl_sent = NONE
    /\ cl_outcome = NONE
    /\ cl_result = NONE

(***************************************************************************)
(* Specification of the timestamp helpers: a caller's timestamp is         *)
(* serialized, and the serialized text is parsed back.                     *)
(***************************************************************************)
DtInit ==
    /\ dt_pc = "start"
    /\ dt_in \in DatetimeArgs
    /\ dt_str = NONE
    /\ dt_out = Returned(NONE)
    /\ PlIdle
    /\ DIdle
    /\ ClIdle
    /\ EvIdle

\* the caller serializes a timestamp argument
Format ==
    /\ dt_pc = "start"
    /\ dt_str' = _format_datetime(dt_in)
    /\ dt_pc' = "formatted"
    /\ UNCHANGED <<dt_in, dt_out, pl_vars, d_vars, cl_vars, ev_vars>>

\* the serialized timestamp is parsed back
Parse ==
    /\ dt_pc = "formatted"
    /\ dt_out' = _parse_datetime(dt_str)
    /\ dt_pc' = "parsed"
    /\ UNCHANGED <<dt_in, dt_str, pl_vars, d_vars, cl_vars, ev_vars>>

DtNext == Format \/ Parse

SpecDatetime == DtInit /\ [][DtNext]_vars

(***************************************************************************)
(* Specification of the endpoint methods as payload builders: a method of  *)
(* either client is called with arguments of its signature and hands an    *)
(* endpoint name and a payload to _request.                                *)
(***************************************************************************)
PlInit ==
    /\ pl_pc = "start"
    /\ \E c \in {"sync", "async"}, m \in MethodNames :
          \E a \in MethodArgs[m] : call = Some([client |-> c, method |-> m, args |-> a])
    /\ request = NONE
    /\ DtIdle
    /\ DIdle
    /\ ClIdle
    /\ EvIdle

\* the request an endpoint method of the given client builds
method_request(c) ==
    IF c.client = "sync" THEN sync_call(c.method, c.args) ELSE async_call(c.method, c.args)

\* the body of an endpoint method up to its call of _request
BuildRequest ==
    /\ pl_pc = "start"
    /\ request' = Some(method_request(call[1]))
    /\ pl_pc' = "built"
    /\ UNCHANGED <<call, dt_vars, d_vars, cl_vars, ev_vars>>

PlNext == BuildRequest

SpecPayload == PlInit /\ [][PlNext]_vars

\* the default values in the signatures of the endpoint methods (the same in both classes)
MethodDefaults ==
    "bonds" :> ("instrument_status" :> [cls |-> "InstrumentStatus", name |-> "INSTRUMENT_STATUS_UNSPECIFIED", value |-> "INSTRUMENT_STATUS_UNSPECIFIED"]) @@
    "bond_by" :> ("class_code" :> NONE @@ "id" :> NONE) @@
    "get_bond_coupons" :> ("from_date" :> NONE @@ "to_date" :> NONE) @@
    "get_bond_events" :> ("from_date" :> NONE @@ "to_date" :> NONE @@ "event_type" :> NONE) @@
    "get_accrued_interests" :> ("from_date" :> NONE @@ "to_date" :> NONE) @@
    "shares" :> ("instrument_status" :> [cls |-> "InstrumentStatus", name |-> "INSTRUMENT_STATUS_UNSPECIFIED", value |-> "INSTRUMENT_STATUS_UNSPECIFIED"]) @@
    "share_by" :> ("class_code" :> NONE @@ "id" :> NONE) @@
    "get_dividends" :> ("from_date" :> NONE @@ "to_date" :> NONE) @@
    "etfs" :> ("instrument_status" :> [cls |-> "InstrumentStatus", name |-> "INSTRUMENT_STATUS_UNSPECIFIED", value |-> "INSTRUMENT_STATUS_UNSPECIFIED"]) @@
    "etf_by" :> ("class_code" :> NONE @@ "id" :> NONE) @@
    "currencies" :> ("instrument_status" :> [cls |-> "InstrumentStatus", name |-> "INSTRUMENT_STATUS_UNSPECIFIED", value |-> "INSTRUMENT_STATUS_UNSPECIFIED"]) @@
    "currency_by" :> ("class_code" :> NONE @@ "id" :> NONE) @@
    "futures" :> ("instrument_status" :> [cls |-> "InstrumentStatus", name |-> "INSTRUMENT_STATUS_UNSPECIFIED", value |-> "INSTRUMENT_STATUS_UNSPECIFIED"]) @@
    "future_by" :> ("class_code" :> NONE @@ "id" :> NONE) @@
    "get_futures_margin" :> EmptyDict @@
    "options" :> ("instrument_status" :> [cls |-> "InstrumentStatus", name |-> "INSTRUMENT_STATUS_UNSPECIFIED", value |-> "INSTRUMENT_STATUS_UNSPECIFIED"]) @@
    "option_by" :> ("class_code" :> NONE @@ "id" :> NONE) @@
    "options_by" :> ("basic_asset_uid" :> NONE @@ "basic_asset_position_uid" :> NONE) @@
    "structured_notes" :> ("instrument_status" :> [cls |-> "InstrumentStatus", name |-> "INSTRUMENT_STATUS_UNSPECIFIED", value |-> "INSTRUMENT_STATUS_UNSPECIFIED"]) @@
    "structured_note_by" :> ("class_code" :> NONE @@ "id" :> NONE) @@
    "indicatives" :> EmptyDict @@
    "find_instrument" :> ("instrument_kind" :> NONE @@ "api_trade_available_flag" :> NONE) @@
    "get_instrument_by" :> ("class_code" :> NONE @@ "id" :> NONE) @@
    "get_assets" :> ("asset_type" :> NONE) @@
    "get_asset_by" :> EmptyDict @@
    "get_asset_fundamentals" :> EmptyDict @@
    "get_asset_reports" :> ("from_date" :> NONE @@ "to_date" :> NONE) @@
    "get_brands" :> ("paging" :> NONE) @@
    "get_brand_by" :> EmptyDict @@
    "get_countries" :> EmptyDict @@
    "get_consensus_forecasts" :> ("paging" :> NONE) @@
    "get_forecast_by" :> EmptyDict @@
    "get_insider_deals" :> ("from_date" :> NONE @@ "to_date" :> NONE) @@
    "get_risk_rates" :> EmptyDict @@
    "trading_schedules" :> ("exchange" :> NONE @@ "from_date" :> NONE @@ "to_date" :> NONE) @@
    "get_favorites" :> EmptyDict @@
    "get_favorite_groups" :> EmptyDict @@
    "create_favorite_group" :> ("instruments" :> NONE) @@
    "edit_favorites" :> EmptyDict @@
    "delete_favorite_group" :> EmptyDict

\* f restricted to the keys in S
Restrict(f, S) == [k \in S |-> f[k]]

\* the ways a caller can call the method named m: each parameter that has a default is
\* either passed or left out
MethodGiven(m) ==
    {Restrict(a, DOMAIN a \ D) : a \in MethodArgs[m], D \in SUBSET DOMAIN MethodDefaults[m]}

\* a bug the signatures could have: the class code defaults to a board, "TQBR"
bind_board_class_code(m, given) ==
    given @@ [k \in DOMAIN MethodDefaults[m] |->
                IF k = "class_code" THEN Some("TQBR") ELSE MethodDefaults[m][k]]

\* a bug the signatures could have: the status filter defaults to INSTRUMENT_STATUS_BASE
bind_base_status(m, given) ==
    given @@ [k \in DOMAIN MethodDefaults[m] |->
                IF k = "instrument_status"
                THEN [cls |-> "InstrumentStatus", name |-> "INSTRUMENT_STATUS_BASE",
                      value |-> "INSTRUMENT_STATUS_BASE"]
                ELSE MethodDefaults[m][k]]

\* Python binds the parameters of the method named m: the arguments given, and the
\* default for every parameter left out
bind(m, given) == given @@ MethodDefaults[m]

\* direct calls of _request(endpoint, payload=None)
DirectGiven ==
    {[endpoint |-> "GetCountries"]}
    \cup {[endpoint |-> "GetCountries", payload |-> p] :
            p \in {NONE, Some(EmptyDict), Some([instrumentStatus |-> "INSTRUMENT_STATUS_BASE"])}}

\* the arguments _request gets in the call c
request_of(c) ==
    IF c.method = "_request"
    THEN LET a == c.given @@ ("payload" :> NONE)
         IN  [endpoint |-> a.endpoint, payload |-> a.payload]
    ELSE LET r == method_request([client |-> c.client, method |-> c.method,
                                  args |-> bind(c.method, c.given)])
         IN  [endpoint |-> r.endpoint, payload |-> Some(r.payload)]

\* the request the call c posts for the arguments r of _request, through the session or
\* the httpx client of its newly constructed instance
posted_of(c, r) ==
    IF c.client = "sync"
    THEN sync_post(new_session(c.token), c.timeout, r.endpoint, r.payload)
    ELSE async_post(1, new_async_client(c.token, c.timeout), r.endpoint, r.payload)

(***************************************************************************)
(* Specification of one call of a newly constructed client, from the       *)
(* caller's keyword arguments to what the caller gets back.                *)
(***************************************************************************)
ClInit ==
    /\ cl_pc = "start"
    /\ \E k \in {"sync", "async"}, c \in Credentials, m \in MethodNames \cup {"_request"} :
          \E g \in (IF m = "_request" THEN DirectGiven ELSE MethodGiven(m)), x \in CtorExtras :
              cl_call = Some([client |-> k, token |-> c.token, timeout |-> c.timeout,
                              extra |-> x, method |-> m, given |-> g])
    /\ cl_instance = NONE
    /\ cl_exit = NONE
    /\ cl_request = NONE
    /\ cl_sent = NONE
    /\ cl_outcome = NONE
    /\ cl_result = NONE
    /\ DtIdle
    /\ PlIdle
    /\ DIdle
    /\ EvIdle

\* the constructor call fails: nothing is constructed, the with block is not entered
ConstructFails ==
    /\ cl_pc = "start"
    /\ construct(cl_call[1].extra).kind = "raise"
    /\ cl_instance' = Some(construct(cl_call[1].extra))
    /\ cl_pc' = "failed"
    /\ UNCHANGED <<cl_call, cl_request, cl_sent, cl_outcome, cl_result, cl_exit,
                   dt_vars, pl_vars, d_vars, ev_vars>>

\* the instance is constructed and, in the with block, a method of it is called: the
\* method builds its payload and _request posts it; the call of InstrumentsService
\* blocks until the transport's answer is returned or raised, the call of
\* AsyncInstrumentsService is suspended in the await of the post
Call ==
    /\ cl_pc = "start"
    /\ construct(cl_call[1].extra).kind = "return"
    /\ cl_instance' = Some(construct(cl_call[1].extra))
    /\ LET c == cl_call[1]
           r == request_of(c)
       IN  /\ cl_request' = Some(r)
           /\ cl_sent' = Some(posted_of(c, r))
           /\ IF c.client = "sync"
              THEN /\ \E o \in Outcomes(r.endpoint) :
                         /\ cl_outcome' = Some(o)
                         /\ cl_result' = Some(sync_request(o))
                         /\ session' = Some(session_after_post(new_session(c.token), o))
                   /\ cl_pc' = "done"
                   /\ UNCHANGED <<_client, httpx_clients>>
              ELSE /\ cl_pc' = "awaiting"
                   /\ httpx_clients' = <<new_async_client(c.token, c.timeout)>>
                   /\ _client' = Some(1)
                   /\ UNCHANGED <<cl_outcome, cl_result, session>>
    /\ UNCHANGED <<cl_call, cl_exit, dt_vars, pl_vars, ev_vars,
                   kind, token, timeout, tasks, close_returned, gathered>>

\* the transport answers and the call returns or raises
AnswerAsync ==
    /\ cl_pc = "awaiting"
    /\ \E o \in Outcomes(cl_request[1].endpoint) :
          /\ cl_outcome' = Some(o)
          /\ cl_result' = Some(async_request(o))
          /\ httpx_clients' = [httpx_clients EXCEPT ![1].cookies = extract_cookies(@, o)]
    /\ cl_pc' = "done"
    /\ UNCHANGED <<cl_call, cl_instance, cl_request, cl_sent, cl_exit, dt_vars, pl_vars, ev_vars,
                   kind, token, timeout, session, _client, tasks, close_returned, gathered>>

\* the with block is left, by the return of the call or by the exception it raised:
\* __exit__ / __aexit__ call close() and return None, and the with statement raises the
\* block's exception again
Exit ==
    /\ cl_pc = "done"
    /\ IF cl_call[1].client = "sync"
       THEN /\ session' = Some(session_close(session[1]))
            /\ UNCHANGED <<_client, httpx_clients>>
       ELSE /\ IF _client /= NONE
               THEN /\ httpx_clients' = [httpx_clients EXCEPT ![_client[1]] = aclose(@)]
                    /\ _client' = client_after_close
               ELSE UNCHANGED <<_client, httpx_clients>>
            /\ UNCHANGED session
    /\ cl_exit' = Some([returned |-> exit_returns,
                        propagated |-> with_propagates(cl_result[1], exit_returns)])
    /\ cl_pc' = "exited"
    /\ UNCHANGED <<cl_call, cl_instance, cl_request, cl_sent, cl_outcome, cl_result,
                   dt_vars, pl_vars, ev_vars, kind, token, timeout, tasks, close_returned, gathered>>

ClNext == ConstructFails \/ Call \/ AnswerAsync \/ Exit

SpecCall == ClInit /\ [][ClNext]_vars

(***************************************************************************)
(* Specification of get_bool_env_var: one call in a process environment.   *)
(***************************************************************************)
EvInit ==
    /\ ev_pc = "start"
    /\ \E set \in SUBSET EnvNames :
          \E vals \in [set -> EnvValues] : environ = vals @@ BaseEnviron
    /\ \E n \in EnvNames, g \in {EmptyDict} \cup {[required |-> b] : b \in BOOLEAN} :
          ev_call = Some([var_name |-> n, given |-> g])
    /\ ev_result = NONE
    /\ DtIdle
    /\ PlIdle
    /\ DIdle
    /\ ClIdle

\* get_bool_env_var(var_name, required) returns or raises; it reads os.environ only
GetBoolEnvVar ==
    /\ ev_pc = "start"
    /\ ev_result' = Some(get_bool_env_var(environ, ev_call[1].var_name,
                                          bind_required(ev_call[1].given)))
    /\ ev_pc' = "done"
    /\ UNCHANGED <<environ, ev_call, dt_vars, pl_vars, d_vars, cl_vars>>

EvNext == GetBoolEnvVar

SpecEnv == EvInit /\ [][EvNext]_vars

(***************************************************************************)
(* Specification of the dispatchers: one client instance, sync or async,   *)
(* and the caller's tasks on it.                                           *)
(***************************************************************************)
\* InstrumentsService.__init__ / AsyncInstrumentsService.__init__
Init ==
    /\ kind \in {"sync", "async"}
    /\ \E c \in Credentials : token = c.token /\ timeout = c.timeout
    /\ session = IF kind = "sync" THEN Some(new_session(token)) ELSE NONE
    /\ _client = NONE
    /\ httpx_clients = <<>>
    /\ tasks = [t \in Tasks |-> IdleTask]
    /\ close_returned = FALSE
    /\ gathered = NONE
    /\ DtIdle
    /\ PlIdle
    /\ ClIdle
    /\ EvIdle

\* an endpoint method of InstrumentsService: the payload, session.post, and the
\* handling of the answer; the call blocks until it has returned or raised
SyncInvoke(t) ==
    /\ kind = "sync"
    /\ CanStart(t)
    /\ LET c   == TaskCall(t)
           r   == sync_call(c.method, c.args)
           req == sync_post(session[1], timeout, r.endpoint, Some(r.payload))
           started == [tasks EXCEPT ![t].op = "invoke", ![t].after_close = close_returned,
                                    ![t].posts = @ + 1, ![t].sent = Append(@, req)]
       IN  \E o \in Outcomes(r.endpoint) :
              /\ tasks' = finish(started, t, o, sync_request(o))
              /\ session' = Some(session_after_post(session[1], o))
    /\ UNCHANGED <<kind, token, timeout, _client, httpx_clients, close_returned, gathered,
                   dt_vars, pl_vars, cl_vars, ev_vars>>

\* InstrumentsService.close: session.close() closes the adapters, which drops the
\* pooled connections and leaves the session usable
SyncClose(t) ==
    /\ kind = "sync"
    /\ CanStart(t)
    /\ session' = Some(session_close(session[1]))
    /\ tasks' = [tasks EXCEPT ![t].op = "close", ![t].pc = "done",
                              ![t].result = Some(Return(NONE))]
    /\ close_returned' = TRUE
    /\ UNCHANGED <<kind, token, timeout, _client, httpx_clients, gathered, dt_vars, pl_vars, cl_vars, ev_vars>>

\* an endpoint method of AsyncInstrumentsService up to its suspension in
\* `await self.client.post(...)`: the payload, the client property (which creates the
\* httpx client when self._client is None) and the post
AsyncInvoke(t) ==
    /\ kind = "async"
    /\ CanStart(t)
    /\ LET c       == TaskCall(t)
           r       == async_call(c.method, c.args)
           clients == IF client_is_none(_client)
                      THEN Append(httpx_clients, new_async_client(token, timeout))
                      ELSE httpx_clients
           ref     == IF client_is_none(_client) THEN Len(clients) ELSE _client[1]
           req     == async_post(ref, clients[ref], r.endpoint, Some(r.payload))
           started == [tasks EXCEPT ![t].op = "invoke", ![t].after_close = close_returned,
                                    ![t].during_close = \E u \in Tasks : tasks[u].pc = "closing",
                                    ![t].posts = @ + 1]
       IN  /\ httpx_clients' = clients
           /\ _client' = Some(ref)
           /\ tasks' = IF clients[ref].state = "closed"
                       THEN [started EXCEPT ![t].pc = "done", ![t].result = Some(ClientClosedError)]
                       ELSE [started EXCEPT ![t].pc = "awaiting", ![t].sent = Append(@, req)]
    /\ UNCHANGED <<kind, token, timeout, session, close_returned, gathered, dt_vars, pl_vars, cl_vars, ev_vars>>

\* the transport answers and _request resumes: raise_for_status, response.json(), the
\* except clauses
AsyncResume(t) ==
    /\ kind = "async"
    /\ tasks[t].pc = "awaiting"
    /\ \E o \in Outcomes(tasks[t].sent[1].url[4]) :
          /\ tasks' = finish(tasks, t, o, async_request(o))
          /\ httpx_clients' = [httpx_clients EXCEPT
                                  ![tasks[t].sent[1].via].cookies = extract_cookies(@, o)]
    /\ UNCHANGED <<kind, token, timeout, session, _client, close_returned,
                   gathered, dt_vars, pl_vars, cl_vars, ev_vars>>

\* AsyncInstrumentsService.close up to its suspension in `await self._client.aclose()`.
\* aclose() marks the client closed and then awaits the transport, which may suspend
\* the task; on a client that is already closed it does nothing and does not suspend.
AsyncClose(t) ==
    /\ kind = "async"
    /\ CanStart(t)
    /\ \/ /\ _client = NONE
          /\ tasks' = [tasks EXCEPT ![t].op = "close", ![t].pc = "done",
                                    ![t].result = Some(Return(NONE))]
          /\ close_returned' = TRUE
          /\ UNCHANGED <<_client, httpx_clients>>
       \/ /\ _client /= NONE
          /\ httpx_clients[_client[1]].state = "open"
          /\ httpx_clients' = [httpx_clients EXCEPT ![_client[1]] = aclose(@)]
          /\ tasks' = [tasks EXCEPT ![t].op = "close", ![t].pc = "closing"]
          /\ UNCHANGED <<_client, close_returned>>
       \/ /\ _client /= NONE
          /\ httpx_clients' = [httpx_clients EXCEPT ![_client[1]] = aclose(@)]
          /\ _client' = client_after_close
          /\ tasks' = [tasks EXCEPT ![t].op = "close", ![t].pc = "done",
                                    ![t].result = Some(Return(NONE))]
          /\ close_returned' = TRUE
    /\ UNCHANGED <<kind, token, timeout, session, gathered, dt_vars, pl_vars, cl_vars, ev_vars>>

\* AsyncInstrumentsService.close resumes after aclose(): self._client = None
AsyncCloseEnd(t) ==
    /\ kind = "async"
    /\ tasks[t].pc = "closing"
    /\ _client' = client_after_close
    /\ tasks' = [tasks EXCEPT ![t].pc = "done", ![t].result = Some(Return(NONE))]
    /\ close_returned' = TRUE
    /\ UNCHANGED <<kind, token, timeout, session, httpx_clients, gathered, dt_vars, pl_vars, cl_vars, ev_vars>>

\* the caller joins the fan-out: results = await asyncio.gather(..., return_exceptions=True)
Gather ==
    /\ kind = "async"
    /\ gathered = NONE
    /\ \A t \in Tasks : tasks[t].pc = "done"
    /\ gathered' = Some(gather_results(tasks))
    /\ UNCHANGED <<kind, token, timeout, session, _client, httpx_clients, tasks,
                   close_returned, dt_vars, pl_vars, cl_vars, ev_vars>>

Next ==
    \/ \E t \in Tasks : SyncInvoke(t)
    \/ \E t \in Tasks : SyncClose(t)
    \/ \E t \in Tasks : AsyncInvoke(t)
    \/ \E t \in Tasks : AsyncResume(t)
    \/ \E t \in Tasks : AsyncClose(t)
    \/ \E t \in Tasks : AsyncCloseEnd(t)
    \/ Gather

Spec == Init /\ [][Next]_vars

(***************************************************************************)
(* Timestamps: what the round trip is compared by                          *)
(***************************************************************************)
\* days since 1970-01-01 of a proleptic Gregorian date (datetime.toordinal, shifted)
DaysFromCivil(y, m, d) ==
    LET yy  == IF m <= 2 THEN y - 1 ELSE y
        era == yy \div 400
        yoe == yy - era * 400
        doy == (153 * (IF m > 2 THEN m - 3 ELSE m + 9) + 2) \div 5 + d - 1
        doe == yoe * 365 + yoe \div 4 - yoe \div 100 + doy
    IN  era * 146097 + doe - 719468

\* the instant of a datetime as <<day, second of the day, microsecond>>: UTC for an
\* aware datetime, the wall clock for a naive one
Instant(dt) ==
    LET secs == 3600 * dt.hour + 60 * dt.minute + dt.second
                  - (IF dt.tz = NONE THEN 0 ELSE dt.tz[1])
    IN  <<DaysFromCivil(dt.year, dt.month, dt.day) + secs \div 86400, secs % 86400,
          dt.microsecond>>

\* datetime.__eq__: naive and aware datetimes are never equal
SameInstant(a, b) == (a.tz = NONE) = (b.tz = NONE) /\ Instant(a) = Instant(b)

\* the text after the 'T' of a serialized timestamp carries a numeric UTC offset
HasNumericOffset(s) == \E i \in 12..Len(s) : s[i] \in {"+", "-"}

\* C8 (as claimed): every provided timestamp, timezone-aware or naive, is serialized
\* to a string that ends with the literal 'Z' and carries no numeric offset.
C8_SerializedEndsWithZ ==
    (dt_pc /= "start" /\ dt_in /= NONE)
        => (EndsWith(dt_str[1], Zulu) /\ ~HasNumericOffset(dt_str[1]))

\* C9: parsing a serialized timestamp yields the same instant as the original, with
\* no error, and None is mapped to None by both functions.
C9_RoundTrip ==
    /\ dt_pc /= "start" => ((dt_in = NONE) = (dt_str = NONE))
    /\ dt_pc = "parsed" =>
          /\ ~dt_out.raised
          /\ (dt_in = NONE) = (dt_out.value = NONE)
          /\ dt_in /= NONE => SameInstant(dt_out.value[1], dt_in[1])

\* C9's case: an aware UTC timestamp went out with a 'Z' and was parsed back
C9_Witness ==
    /\ dt_pc = "parsed"
    /\ dt_in /= NONE /\ dt_in[1].tz = Some(0)
    /\ EndsWith(dt_str[1], Zulu)
    /\ dt_out.value /= NONE /\ dt_out.value[1].tz = Some(0)


(***************************************************************************)
(* Optional arguments and the payload                                      *)
(***************************************************************************)
\* the payload key each optional argument of the endpoint methods is sent under
ArgKey ==
    [class_code |-> "classCode", id |-> "id", from_date |-> "from", to_date |-> "to",
     event_type |-> "eventType", basic_asset_uid |-> "basicAssetUid",
     basic_asset_position_uid |-> "basicAssetPositionUid",
     instrument_kind |-> "instrumentKind",
     api_trade_available_flag |-> "apiTradeAvailableFlag", asset_type |-> "assetType",
     paging |-> "paging", exchange |-> "exchange", instruments |-> "instruments"]

StrArgNames == {"class_code", "id", "event_type", "basic_asset_uid",
                "basic_asset_position_uid", "exchange"}

\* the optional arguments of a call (edit_favorites takes instruments as a required list)
OptionalArgs(c) ==
    IF c.method = "edit_favorites" THEN {} ELSE DOMAIN c.args \cap DOMAIN ArgKey

\* the value an optional argument that is set stands for in a payload
ArgValue(arg, o) ==
    CASE arg \in {"from_date", "to_date"} -> _format_datetime(o)[1]
      [] arg \in {"instrument_kind", "asset_type"} -> o[1].value
      [] OTHER -> o[1]

\* an optional argument that is set, but to the empty str, the empty list or the empty dict
SetButEmpty(arg, o) ==
    /\ o /= NONE
    /\ \/ arg \in StrArgNames /\ o[1] = ""
       \/ arg = "instruments" /\ o[1] = <<>>
       \/ arg = "paging" /\ DOMAIN o[1] = {}

\* C7 (as claimed): an optional argument left unset (None) has no key in the payload,
\* and one that is set, also to a falsy value such as the empty string, has its key
\* in the payload with that value.
C7_SetArgumentsAppear ==
    pl_pc = "built" =>
        \A arg \in OptionalArgs(call[1]) :
            LET o == call[1].args[arg]
                p == request[1].payload
            IN  /\ o = NONE => ArgKey[arg] \notin DOMAIN p
                /\ o /= NONE => (ArgKey[arg] \in DOMAIN p /\ p[ArgKey[arg]] = ArgValue(arg, o))

\* C7 (amended): the key of an optional argument is in the payload exactly when the
\* argument is neither None nor empty (empty str, list or dict), and then with the
\* argument's value; api_trade_available_flag is in the payload whenever it is not None.
C7_NonEmptyArgumentsAppear ==
    pl_pc = "built" =>
        \A arg \in OptionalArgs(call[1]) :
            LET o == call[1].args[arg]
                p == request[1].payload
            IN  /\ (ArgKey[arg] \in DOMAIN p) = (o /= NONE /\ ~SetButEmpty(arg, o))
                /\ ArgKey[arg] \in DOMAIN p => p[ArgKey[arg]] = ArgValue(arg, o)

\* C7's case: bond_by was called with the empty string as class code and a real id
C7_Witness ==
    /\ pl_pc = "built"
    /\ call[1].method = "bond_by"
    /\ call[1].args.class_code = Some("") /\ call[1].args.id = Some("SBER")
    /\ DOMAIN request[1].payload = {"idType", "id"}

(***************************************************************************)
(* The dispatchers: what a call gives its caller                           *)
(***************************************************************************)
Invoked(t) == tasks[t].op = "invoke" /\ tasks[t].pc = "done"

\* the call of task t ended on an answer of the transport (it was not refused unsent)
Answered(t) == Invoked(t) /\ tasks[t].outcome /= NONE

EndpointOf(t) == tasks[t].sent[1].url[4]

Is2xx(o) == o.type = "response" /\ o.status >= 200 /\ o.status <= 299

IsJson(text) == \E e \in {"Bonds", "Shares", "Etfs", "Currencies", "Futures"} : text = JsonBody(e)

\* C1: a 2xx answer with a JSON body is returned to the caller as exactly the decoded
\* body, and nothing is raised, in both clients.
C1_SuccessBodyReturned ==
    \A t \in DOMAIN tasks :
        (Answered(t) /\ Is2xx(tasks[t].outcome[1])
            /\ tasks[t].outcome[1].text = JsonBody(EndpointOf(t)))
        => tasks[t].result[1] = Return(Some([endpoint |-> EndpointOf(t)]))

\* C1's case: a call of each kind of client has returned a decoded 2xx body
C1_Witness ==
    \E t \in DOMAIN tasks :
        /\ Answered(t) /\ Is2xx(tasks[t].outcome[1])
        /\ tasks[t].result[1].kind = "return"
        /\ tasks[t].result[1].value = Some([endpoint |-> "Shares"])

\* C2 (as claimed): every non-2xx answer makes _request raise TBankInvestAPIError, with
\* the decoded body in the message when the body decodes and with the status code and
\* the raw text when it does not; no value is returned.
C2_Non2xxRaises ==
    \A t \in DOMAIN tasks :
        (Answered(t) /\ tasks[t].outcome[1].type = "response" /\ ~Is2xx(tasks[t].outcome[1]))
        => LET o == tasks[t].outcome[1]
               r == tasks[t].result[1]
           IN  /\ r.kind = "raise" /\ r.exc = "TBankInvestAPIError"
               /\ IF IsJson(o.text)
                  THEN r.msg = <<"API error: ", [endpoint |-> EndpointOf(t)]>>
                  ELSE r.msg = <<"HTTP ", o.status, ": ", o.text>>

\* C3 (as claimed): a connection-level failure raises TBankInvestAPIError with the
\* prefix "Request failed: ", and no error raised for a non-2xx answer has that prefix.
C3_FailureKindsDistinct ==
    \A t \in DOMAIN tasks :
        Answered(t) =>
            LET o == tasks[t].outcome[1]
                r == tasks[t].result[1]
            IN  /\ o.type = "error" =>
                      (r.kind = "raise" /\ r.exc = "TBankInvestAPIError"
                          /\ r.msg[1] = "Request failed: ")
                /\ (o.type = "response" /\ ~Is2xx(o) /\ r.kind = "raise") =>
                      r.msg[1] /= "Request failed: "

\* C4 (as claimed): an endpoint call made after close() has returned sends no request
\* and fails with a "client closed" error, and a closed dispatcher holds no open client.
C4_ClosedFailsFast ==
    /\ \A t \in DOMAIN tasks :
          (tasks[t].op = "invoke" /\ tasks[t].after_close) =>
              /\ tasks[t].sent = <<>>
              /\ tasks[t].pc = "done" /\ tasks[t].result[1].kind = "raise"
    /\ (close_returned /\ _client /= NONE) => httpx_clients[_client[1]].state = "closed"

\* C4 (amended): close() leaves no closed state behind.  An endpoint call made after
\* close() has returned posts its request as usual: the sync client through the same
\* session, the async client through the client that self._client refers to, created
\* anew when close() had reset it to None.  Only an async call made while another
\* close() is suspended in aclose() finds the closed client and gets httpx's
\* RuntimeError, with nothing sent.
C4_UsableAfterClose ==
    \A t \in DOMAIN tasks :
        (tasks[t].op = "invoke" /\ tasks[t].after_close) =>
            \/ /\ Len(tasks[t].sent) = 1
               /\ kind = "async" => tasks[t].sent[1].headers = auth_headers(token)
               /\ tasks[t].pc = "done" => tasks[t].outcome /= NONE
            \/ /\ kind = "async" /\ tasks[t].during_close
               /\ tasks[t].sent = <<>>
               /\ tasks[t].pc = "done" /\ tasks[t].result[1] = ClientClosedError

\* C4's case: after a close() that closed a used client, a call went out on a new client
C4_Witness ==
    \E t \in DOMAIN tasks :
        /\ kind = "async" /\ Invoked(t) /\ tasks[t].after_close
        /\ Len(httpx_clients) = 2 /\ httpx_clients[1].state = "closed"
        /\ tasks[t].sent[1].via = 2
        /\ tasks[t].result[1].kind = "return"

\* C5 (as claimed): every failure reaches the caller as TBankInvestAPIError: nothing else
\* is raised, and no answer other than a 2xx one with a decodable body is returned.
C5_OneErrorType ==
    \A t \in DOMAIN tasks :
        Invoked(t) =>
            LET r == tasks[t].result[1]
            IN  /\ r.kind = "raise" => r.exc = "TBankInvestAPIError"
                /\ r.kind = "return" =>
                      (Is2xx(tasks[t].outcome[1]) /\ IsJson(tasks[t].outcome[1].text))

CloseStarts(t) == tasks[t].pc = "idle" /\ tasks'[t].op = "close"

\* the connections the instance holds open: the session's pool, the open httpx clients
LiveSession == session /= NONE /\ session[1].pool = "live"
OpenClients == {i \in DOMAIN httpx_clients : httpx_clients[i].state = "open"}

\* the connections this step releases
ReleasedHere ==
    (IF LiveSession /\ session'[1].pool /= "live" THEN {0} ELSE {})
    \cup {i \in OpenClients : httpx_clients'[i].state /= "open"}

\* C11 (as claimed): the connection is released exactly once: once a close() has
\* returned, no later close() releases anything, and no close() raises.
C11_ReleasedOnce ==
    /\ [](\A t \in DOMAIN tasks :
            (tasks[t].op = "close" /\ tasks[t].pc = "done") => tasks[t].result[1] = Return(NONE))
    /\ [][\A t \in DOMAIN tasks :
            (CloseStarts(t) /\ close_returned) => ReleasedHere = {}]_vars

\* C11 (amended): close() never raises and is safe to repeat.  A close() on an instance
\* that holds nothing open (never used, or closed and not used since) changes no
\* connection state; any close() releases at most the one object the instance refers
\* to; a closed httpx client is never reopened.  A close() that follows an invocation
\* made after an earlier close() does release again: what that invocation acquired.
C11_CloseIdempotent ==
    /\ [](\A t \in DOMAIN tasks :
            (tasks[t].op = "close" /\ tasks[t].pc = "done") => tasks[t].result[1] = Return(NONE))
    /\ [][\A t \in DOMAIN tasks :
            CloseStarts(t) =>
                /\ session' = session \/ LiveSession
                /\ httpx_clients' = httpx_clients
                      \/ (_client /= NONE /\ ReleasedHere = {_client[1]})
                /\ Cardinality(ReleasedHere) <= 1]_vars
    /\ [][\A i \in DOMAIN httpx_clients :
            httpx_clients[i].state = "closed" => httpx_clients'[i].state = "closed"]_vars

\* C11's case: a close() has returned, and one more close() has returned after it
C11_Witness ==
    \E t, u \in DOMAIN tasks :
        /\ t /= u
        /\ tasks[t].op = "close" /\ tasks[t].pc = "done"
        /\ tasks[u].op = "close" /\ tasks[u].pc = "done"
        /\ \/ kind = "sync" /\ session[1].pool = "empty"
           \/ kind = "async" /\ Len(httpx_clients) = 1 /\ httpx_clients[1].state = "closed"

\* the close() calls that have returned
ClosesDone == {t \in DOMAIN tasks : tasks[t].op = "close" /\ tasks[t].pc = "done"}

\* C12 (as claimed): the instance acquires its connection object at construction and
\* never creates another: it has exactly one, before and after close().
C12_OneConnectionObject ==
    /\ kind = "sync" => (session /= NONE /\ httpx_clients = <<>>)
    /\ kind = "async" => Len(httpx_clients) = 1

\* C12 (amended): InstrumentsService creates its one requests.Session at construction
\* and never another.  AsyncInstrumentsService creates no httpx client at construction:
\* the client property creates one in the first invocation, and again in the first
\* invocation after each close() that reset self._client to None, and at no other time;
\* so it creates at most one client more than close() calls have returned.
C12_LazyClients ==
    /\ [](kind = "sync" => (session /= NONE /\ httpx_clients = <<>>))
    /\ [](kind = "async" =>
            /\ session = NONE
            /\ (\A t \in Tasks : tasks[t].op /= "invoke") => httpx_clients = <<>>
            /\ Len(httpx_clients) <= 1 + Cardinality(ClosesDone)
            /\ _client /= NONE => _client[1] \in DOMAIN httpx_clients)
    /\ [][/\ kind = "sync" => session'[1].headers = session[1].headers
          /\ Len(httpx_clients') /= Len(httpx_clients) =>
                /\ _client = NONE
                /\ httpx_clients' = Append(httpx_clients, new_async_client(token, timeout))
                /\ _client' = Some(Len(httpx_clients'))
                /\ \E t \in Tasks : tasks[t].pc = "idle" /\ tasks'[t].op = "invoke"]_vars

\* C12's case: the async client has made calls on a second httpx client, created after
\* a close() closed the first
C12_Witness ==
    /\ kind = "async" /\ close_returned
    /\ Len(httpx_clients) = 2
    /\ httpx_clients[1].state = "closed" /\ httpx_clients[2].state = "open"
    /\ _client = Some(2)
    /\ \E t \in Tasks : tasks[t].pc = "awaiting" /\ tasks[t].sent[1].via = 2

(***************************************************************************)
(* The dispatchers: the requests they send                                 *)
(***************************************************************************)
\* C13: the token and the timeout of an instance are those given to its constructor for
\* its whole life: no endpoint call and no close() changes them, and every request of
\* the instance carries that bearer token and applies that timeout, in both clients,
\* also on an httpx client created after a close().
C13_CredentialsFixed ==
    /\ [][token' = token /\ timeout' = timeout]_vars
    /\ [](\E c \in Credentials : token = c.token /\ timeout = c.timeout)
    /\ [](\A t \in DOMAIN tasks : \A i \in DOMAIN tasks[t].sent :
            /\ tasks[t].sent[i].headers["Authorization"] = <<"Bearer ", token>>
            /\ tasks[t].sent[i].timeout = timeout)

\* C13's case: an instance constructed with the second token and a timeout of 5 has
\* sent requests before and after a close()
C13_Witness ==
    /\ token = "t.bob" /\ timeout = 5
    /\ \E t, u \in DOMAIN tasks :
          /\ Invoked(t) /\ ~tasks[t].after_close /\ Len(tasks[t].sent) = 1
          /\ Invoked(u) /\ tasks[u].after_close /\ Len(tasks[u].sent) = 1
          /\ tasks[u].sent[1].timeout = 5
          /\ tasks[u].sent[1].headers["Authorization"] = <<"Bearer ", "t.bob">>

\* two results are the same for the caller: both return the same value, or both raise
\* the same exception type with the same message
SameResult(r1, r2) ==
    /\ r1.kind = r2.kind
    /\ r1.exc = r2.exc
    /\ r1.msg = r2.msg
    /\ r1.value = r2.value

\* the same call made on the client of the other class
OtherClient(c) == [c EXCEPT !.client = IF c.client = "sync" THEN "async" ELSE "sync"]

\* C14 (as claimed): the two clients are interchangeable: for every method and every
\* argument tuple, a call passes _request the endpoint name and the payload, and posts
\* the body, that the same call on the other client does, and it ends, on the
\* transport's answer, with the result or the error that either client's _request
\* gives for that answer.
C14_ClientsAgree ==
    cl_request /= NONE =>
        LET c == cl_call[1]
        IN  /\ cl_request[1] = request_of(OtherClient(c))
            /\ cl_sent[1].url = posted_of(OtherClient(c), cl_request[1]).url
            /\ cl_sent[1].json = posted_of(OtherClient(c), cl_request[1]).json
            /\ cl_result /= NONE =>
                  /\ SameResult(cl_result[1], sync_request(cl_outcome[1]))
                  /\ SameResult(cl_result[1], async_request(cl_outcome[1]))

(***************************************************************************)
(* One call: the request posted and the payload of each kind of method     *)
(***************************************************************************)
\* C15: every request _request sends is an HTTP POST to BASE_URL + SERVICE_PATH + "/" +
\* endpoint, with the headers Authorization: Bearer <token> and Content-Type:
\* application/json and no other, and with the payload as its JSON body; a payload that
\* is empty, or None, or not given, is sent as the body {}.
C15_RequestShape ==
    cl_sent /= NONE =>
        LET c == cl_call[1]
            r == cl_request[1]
            q == cl_sent[1]
        IN  /\ q.verb = "POST"
            /\ q.url = <<BASE_URL, SERVICE_PATH, "/", r.endpoint>>
            /\ DOMAIN q.headers = {"Authorization", "Content-Type"}
            /\ q.headers["Authorization"] = <<"Bearer ", c.token>>
            /\ q.headers["Content-Type"] = <<"application/json">>
            /\ q.json /= NONE
            /\ q.json[1] = (IF r.payload = NONE THEN EmptyDict ELSE r.payload[1])
            /\ (c.method = "_request" /\ "payload" \notin DOMAIN c.given) => q.json = Some(EmptyDict)

\* C15's case: _request was called without a payload, and the body {} was posted
C15_Witness ==
    /\ cl_sent /= NONE
    /\ cl_call[1].method = "_request" /\ "payload" \notin DOMAIN cl_call[1].given
    /\ cl_request[1].payload = NONE
    /\ cl_sent[1].json = Some(EmptyDict)
    /\ cl_sent[1].url[4] = "GetCountries"

\* the methods that list the instruments of one type
ListMethods ==
    {"bonds", "shares", "etfs", "currencies", "futures", "options", "structured_notes"}

\* C16: a list method called without a status filter passes _request, and posts, exactly
\* the payload {"instrumentStatus": "INSTRUMENT_STATUS_UNSPECIFIED"}, with no other
\* key, and returns the mapping of a 2xx JSON response unchanged.
C16_ListDefaultStatus ==
    (cl_request /= NONE /\ cl_call[1].method \in ListMethods /\ DOMAIN cl_call[1].given = {}) =>
        /\ cl_request[1].payload = Some([instrumentStatus |-> "INSTRUMENT_STATUS_UNSPECIFIED"])
        /\ DOMAIN cl_request[1].payload[1] = {"instrumentStatus"}
        /\ cl_sent[1].json = cl_request[1].payload
        /\ (cl_result /= NONE /\ Is2xx(cl_outcome[1])
                /\ cl_outcome[1].text = JsonBody(cl_request[1].endpoint)) =>
              cl_result[1] = Return(Some([endpoint |-> cl_request[1].endpoint]))

\* C16's case: structured_notes() of the async client, called without arguments, has
\* returned the response mapping
C16_Witness ==
    /\ cl_result /= NONE
    /\ cl_call[1].client = "async"
    /\ cl_call[1].method = "structured_notes" /\ DOMAIN cl_call[1].given = {}
    /\ cl_sent[1].json[1]["instrumentStatus"] = "INSTRUMENT_STATUS_UNSPECIFIED"
    /\ cl_result[1] = Return(Some([endpoint |-> "StructuredNotes"]))

\* the methods that look one instrument up by an identifier
ByMethods ==
    {"bond_by", "share_by", "etf_by", "currency_by", "future_by", "option_by",
     "structured_note_by", "get_instrument_by"}

\* the argument named k as the caller gave it in the call c, None when it was left out
GivenOrNone(c, k) == IF k \in DOMAIN c.given THEN c.given[k] ELSE NONE

\* C17: an identifier-lookup method called with an identifier type and an id, and with
\* no class code (left out, or None), sends a payload whose keys are exactly idType and
\* id, with the identifier type's value and the id: classCode is absent.
C17_LookupWithoutClassCode ==
    (cl_request /= NONE /\ cl_call[1].method \in ByMethods
        /\ GivenOrNone(cl_call[1], "class_code") = NONE
        /\ GivenOrNone(cl_call[1], "id") \notin {NONE, Some("")}) =>
            LET pl == cl_request[1].payload[1]
            IN  /\ DOMAIN pl = {"idType", "id"}
                /\ pl["idType"] = cl_call[1].given.id_type.value
                /\ pl["id"] = cl_call[1].given.id[1]
                /\ cl_sent[1].json = Some(pl)

\* C17's case: bond_by(INSTRUMENT_ID_TYPE_FIGI, id="SBER") with the class code left out
C17_Witness ==
    /\ cl_request /= NONE
    /\ cl_call[1].method = "bond_by"
    /\ DOMAIN cl_call[1].given = {"id_type", "id"}
    /\ cl_call[1].given.id_type.name = "INSTRUMENT_ID_TYPE_FIGI"
    /\ cl_call[1].given.id = Some("SBER")
    /\ cl_request[1].payload[1] = [idType |-> "INSTRUMENT_ID_TYPE_FIGI", id |-> "SBER"]

\* C18: in every identifier-lookup method classCode and id are in the payload exactly
\* when the class_code, respectively the id, argument is neither None nor the empty
\* string, each independently of the other and of the identifier type, and then with
\* the argument's value; idType is always in it.
C18_LookupOptionalFields ==
    (cl_request /= NONE /\ cl_call[1].method \in ByMethods) =>
        LET pl == cl_request[1].payload[1]
            cc == GivenOrNone(cl_call[1], "class_code")
            id == GivenOrNone(cl_call[1], "id")
        IN  /\ DOMAIN pl \subseteq {"idType", "classCode", "id"}
            /\ "idType" \in DOMAIN pl /\ pl["idType"] = cl_call[1].given.id_type.value
            /\ "classCode" \in DOMAIN pl <=> cc \notin {NONE, Some("")}
            /\ "classCode" \in DOMAIN pl => pl["classCode"] = cc[1]
            /\ "id" \in DOMAIN pl <=> id \notin {NONE, Some("")}
            /\ "id" \in DOMAIN pl => pl["id"] = id[1]

\* C18's case: get_instrument_by of the async client with a class code and an empty id
C18_Witness ==
    /\ cl_request /= NONE
    /\ cl_call[1].client = "async" /\ cl_call[1].method = "get_instrument_by"
    /\ GivenOrNone(cl_call[1], "class_code") = Some("TQBR")
    /\ GivenOrNone(cl_call[1], "id") = Some("")
    /\ DOMAIN cl_request[1].payload[1] = {"idType", "classCode"}

\* C19 (as claimed): every method that takes a list puts the list it is given under its
\* key in the payload as the same sequence, the empty list included.
C19_ListPassedThrough ==
    cl_request /= NONE =>
        LET c  == cl_call[1]
            pl == cl_request[1].payload[1]
        IN  /\ c.method = "get_asset_fundamentals" =>
                  ("assets" \in DOMAIN pl /\ pl["assets"] = c.given.assets)
            /\ c.method = "edit_favorites" =>
                  ("instruments" \in DOMAIN pl /\ pl["instruments"] = c.given.instruments)
            /\ (c.method = "create_favorite_group" /\ GivenOrNone(c, "instruments") /= NONE) =>
                  ("instruments" \in DOMAIN pl /\ pl["instruments"] = c.given.instruments[1])

\* C19 (amended): get_asset_fundamentals and edit_favorites put the list they are given
\* in the payload as the same sequence (same elements, same order, duplicates kept), the
\* empty list included; create_favorite_group does so for a non-empty list and leaves
\* the key instruments out when the list is empty, as when it is None or not given.
C19_NonEmptyListPassedThrough ==
    cl_request /= NONE =>
        LET c  == cl_call[1]
            pl == cl_request[1].payload[1]
            given == GivenOrNone(c, "instruments")
        IN  /\ c.method = "get_asset_fundamentals" =>
                  ("assets" \in DOMAIN pl /\ pl["assets"] = c.given.assets)
            /\ c.method = "edit_favorites" =>
                  ("instruments" \in DOMAIN pl /\ pl["instruments"] = c.given.instruments)
            /\ c.method = "create_favorite_group" =>
                  /\ "instruments" \in DOMAIN pl <=> given \notin {NONE, Some(<<>>)}
                  /\ "instruments" \in DOMAIN pl => pl["instruments"] = given[1]

\* C19's case: a list with a duplicate went through create_favorite_group, and the empty
\* list through get_asset_fundamentals
C19_Witness ==
    /\ cl_request /= NONE
    /\ \/ /\ cl_call[1].method = "create_favorite_group"
          /\ GivenOrNone(cl_call[1], "instruments") = Some(<<[figi |-> "F1"], [figi |-> "F1"]>>)
          /\ cl_request[1].payload[1]["instruments"] = <<[figi |-> "F1"], [figi |-> "F1"]>>
       \/ /\ cl_call[1].method = "get_asset_fundamentals"
          /\ cl_request[1].payload[1]["assets"] = <<>>
    /\ cl_call[1].client = "sync"

\* the methods that take a pagination argument
PagingMethods == {"get_brands", "get_consensus_forecasts"}

\* C20 (as claimed): in get_brands and get_consensus_forecasts a paging argument that is
\* given (not None) is in the payload under the key paging as the same mapping, and the
\* key is absent when the argument is not given.
C20_PagingPassedThrough ==
    (cl_request /= NONE /\ cl_call[1].method \in PagingMethods) =>
        LET pl == cl_request[1].payload[1]
            paging == GivenOrNone(cl_call[1], "paging")
        IN  /\ "paging" \in DOMAIN pl <=> paging /= NONE
            /\ "paging" \in DOMAIN pl => pl["paging"] = paging[1]

\* C20 (amended): a paging argument that is a non-empty mapping is in the payload under
\* the key paging as the same mapping, no key added, removed or defaulted; the key is
\* absent when the argument is not given, is None, or is the empty mapping; the payload
\* has no other key.
C20_NonEmptyPagingPassedThrough ==
    (cl_request /= NONE /\ cl_call[1].method \in PagingMethods) =>
        LET pl == cl_request[1].payload[1]
            paging == GivenOrNone(cl_call[1], "paging")
        IN  /\ DOMAIN pl \subseteq {"paging"}
            /\ "paging" \in DOMAIN pl <=> (paging /= NONE /\ DOMAIN paging[1] /= {})
            /\ "paging" \in DOMAIN pl =>
                  (pl["paging"] = paging[1] /\ DOMAIN pl["paging"] = DOMAIN paging[1])

\* C20's case: get_consensus_forecasts(paging={"limit": 10, "offset": 0})
C20_Witness ==
    /\ cl_request /= NONE
    /\ cl_call[1].method = "get_consensus_forecasts"
    /\ cl_request[1].payload[1] = [paging |-> [limit |-> 10, offset |-> 0]]
    /\ cl_sent[1].json[1]["paging"]["offset"] = 0

(***************************************************************************)
(* One call: enumerated arguments and find_instrument                      *)
(***************************************************************************)
\* the payload key each enumerated parameter is sent under
EnumKey ==
    [instrument_status |-> "instrumentStatus", id_type |-> "idType",
     instrument_kind |-> "instrumentKind", asset_type |-> "assetType"]

\* the members of the four enums
EnumMembers ==
    InstrumentStatusMembers \cup InstrumentIdTypeMembers \cup InstrumentTypeMembers
        \cup AssetTypeMembers

\* the enum member the call c passes for the parameter k (given, or its default), as an
\* Optional: NONE when the argument is None
EnumArg(c, k) ==
    LET v == bind(c.method, c.given)[k]
    IN  IF k \in {"instrument_status", "id_type"} THEN Some(v) ELSE v

\* C21: every enumerated argument is in the payload, under its key, as the string value
\* of the member and not as the member itself, for every member of the four enums, the
\* *_UNSPECIFIED member passed explicitly to find_instrument or get_assets included.
C21_EnumsAsValues ==
    (cl_request /= NONE /\ cl_call[1].method \in MethodNames) =>
        LET c  == cl_call[1]
            pl == cl_request[1].payload[1]
        IN  \A k \in DOMAIN EnumKey \cap DOMAIN bind(c.method, c.given) :
                EnumArg(c, k) /= NONE =>
                    /\ EnumArg(c, k)[1] \in EnumMembers
                    /\ EnumKey[k] \in DOMAIN pl
                    /\ pl[EnumKey[k]] = EnumArg(c, k)[1].value
                    /\ cl_sent[1].json[1][EnumKey[k]] = EnumArg(c, k)[1].value

\* C21's case: get_assets(AssetType.ASSET_TYPE_UNSPECIFIED), passed explicitly
C21_Witness ==
    /\ cl_request /= NONE
    /\ cl_call[1].method = "get_assets"
    /\ "asset_type" \in DOMAIN cl_call[1].given
    /\ cl_call[1].given.asset_type /= NONE
    /\ cl_call[1].given.asset_type[1].name = "ASSET_TYPE_UNSPECIFIED"
    /\ cl_request[1].payload[1] = [assetType |-> "ASSET_TYPE_UNSPECIFIED"]

(***************************************************************************)
(* One call: undecodable bodies and timeouts                               *)
(***************************************************************************)
\* C22 (as claimed): when a 2xx response has a body that is not JSON, the call returns
\* nothing and the decode failure itself reaches the caller, the same in both clients.
C22_DecodeFailurePropagates ==
    (cl_result /= NONE /\ Is2xx(cl_outcome[1]) /\ cl_outcome[1].text = HtmlBody) =>
        /\ cl_result[1].kind = "raise"
        /\ cl_result[1].exc = "JSONDecodeError"
        /\ SameResult(sync_request(cl_outcome[1]), async_request(cl_outcome[1]))

\* what the caller can tell of a failure at the API boundary: the exception type and the
\* prefix of its message
ErrorKind(r) == <<r.kind, r.exc, r.msg[1]>>

\* C23: a call that times out fails as every other connection-level failure does, with
\* TBankInvestAPIError and the message prefix "Request failed: ", in both clients.
C23_TimeoutLikeOtherFailures ==
    (cl_result /= NONE /\ cl_outcome[1].type = "error") =>
        /\ ErrorKind(cl_result[1]) = <<"raise", "TBankInvestAPIError", "Request failed: ">>
        /\ \A e \in TransportErrors :
              LET o == [cl_outcome[1] EXCEPT !.error = e]
              IN  /\ ErrorKind(sync_request(o)) = ErrorKind(cl_result[1])
                  /\ ErrorKind(async_request(o)) = ErrorKind(cl_result[1])

\* C23's case: a call of the sync client has timed out
C23_Witness ==
    /\ cl_result /= NONE
    /\ cl_call[1].client = "sync"
    /\ cl_outcome[1].type = "error" /\ cl_outcome[1].error = "Timeout"
    /\ cl_result[1].kind = "raise" /\ cl_result[1].cause = "Timeout"
    /\ cl_result[1].msg[1] = "Request failed: "

(***************************************************************************)
(* The dispatchers: what one invocation leaves for the next                *)
(***************************************************************************)
\* the request a newly constructed instance with the same token and timeout posts for
\* the call of task t
FreshRequest(t) ==
    LET c == TaskCall(t)
    IN  IF kind = "sync"
        THEN LET r == sync_call(c.method, c.args)
             IN  sync_post(new_session(token), timeout, r.endpoint, Some(r.payload))
        ELSE LET r == async_call(c.method, c.args)
             IN  async_post(1, new_async_client(token, timeout), r.endpoint, Some(r.payload))

\* C24 (as claimed): an invocation is stateless: whatever was invoked, answered or
\* raised before on the instance, a call sends the request a newly constructed instance
\* sends for it (over whichever connection object it has), and returns or raises what
\* its own answer determines.
C24_Stateless ==
    \A t \in DOMAIN tasks :
        (tasks[t].op = "invoke" /\ tasks[t].sent /= <<>>) =>
            /\ tasks[t].sent[1] = [FreshRequest(t) EXCEPT !.via = tasks[t].sent[1].via]
            /\ Answered(t) =>
                  tasks[t].result[1] = IF kind = "sync" THEN sync_request(tasks[t].outcome[1])
                                       ELSE async_request(tasks[t].outcome[1])

(***************************************************************************)
(* One use of a client: the constructor and the with block                 *)
(***************************************************************************)
\* C25: used as a context manager, a client is closed when the block is left, by a
\* return or by an exception: the session's pool is empty, the httpx client is closed
\* and self._client is None; __exit__ / __aexit__ return None, and an exception raised
\* in the block is raised again to the caller of the with statement, unchanged.
C25_ClosedOnExit ==
    /\ cl_pc = "exited" <=> cl_exit /= NONE
    /\ cl_exit /= NONE =>
          /\ cl_call[1].client = "sync" => (session /= NONE /\ session[1].pool = "empty")
          /\ cl_call[1].client = "async" =>
                /\ _client = NONE
                /\ \A i \in DOMAIN httpx_clients : httpx_clients[i].state = "closed"
          /\ cl_result[1].kind = "raise" => cl_exit[1].propagated = cl_result
          /\ cl_result[1].kind = "return" => cl_exit[1].propagated = NONE

\* C25's case: the block of an async client raised on a 404 answer; the block was left,
\* the httpx client is closed and the exception reached the caller
C25_Witness ==
    /\ cl_pc = "exited"
    /\ cl_call[1].client = "async"
    /\ cl_outcome[1].status = 404
    /\ httpx_clients[1].state = "closed"
    /\ cl_exit[1].propagated /= NONE
    /\ cl_exit[1].propagated[1].exc = "TBankInvestAPIError"

\* C26 (as claimed): InstrumentsService(token=..., sandbox=True, verify_ssl=False) is
\* constructed, and its requests go to the sandbox target, not to the production one.
C26_SandboxSelectsTarget ==
    (cl_instance /= NONE /\ cl_call[1].client = "sync"
        /\ "sandbox" \in DOMAIN cl_call[1].extra) =>
        /\ cl_instance[1].kind = "return"
        /\ cl_sent /= NONE
        /\ cl_call[1].extra["sandbox"] => cl_sent[1].url[1] /= BASE_URL

(***************************************************************************)
(* Boolean environment variables                                           *)
(***************************************************************************)
\* C27: for a variable that is set, get_bool_env_var returns True exactly when the
\* value is 'true', 'yes', 'on' or '1' in some mix of cases, and False for every other
\* value, the empty string included; for a variable that is not set it raises
\* ValueError when required is True (also by default) and returns False when required
\* is False; the environment is never changed.
C27_BoolEnvVar ==
    /\ [](ev_result /= NONE =>
            LET n == ev_call[1].var_name
                g == ev_call[1].given
                r == ev_result[1]
            IN  /\ n \in DOMAIN environ =>
                      r = Return(\E w \in TruthyWords : environ[n] \in CaseVariants(w))
                /\ (n \notin DOMAIN environ /\ ("required" \notin DOMAIN g \/ g.required)) =>
                      (r.kind = "raise" /\ r.exc = "ValueError")
                /\ (n \notin DOMAIN environ /\ "required" \in DOMAIN g /\ ~g.required) =>
                      r = Return(FALSE))
    /\ [][environ' = environ]_vars

\* C27's case: the variable asked for is set to "YeS" and the call returned True
C27_Witness ==
    /\ ev_result /= NONE
    /\ ev_call[1].var_name = "SANDBOX"
    /\ "SANDBOX" \in DOMAIN environ
    /\ environ["SANDBOX"] = <<"Y", "e", "S">>
    /\ ev_result[1] = Return(TRUE)

(***************************************************************************)
(* The dispatchers: overlapping close() calls                              *)
(***************************************************************************)
\* C28 (as claimed): whatever the interleaving of invocations and close() calls on one
\* AsyncInstrumentsService, every httpx client the instance created is still referred
\* to by self._client or has been closed.
C28_NoClientLeaked ==
    kind = "async" =>
        \A i \in DOMAIN httpx_clients :
            httpx_clients[i].state = "closed" \/ _client = Some(i)

(***************************************************************************)
(* One call: find_instrument                                               *)
(***************************************************************************)
\* C29: find_instrument, in both clients, always sends the key query with the string
\* given, the empty string included; it sends instrumentKind, with the member's value,
\* exactly when an instrument kind is given; and it sends apiTradeAvailableFlag exactly
\* when the flag is not None, with the boolean given, False as well as True.  The
\* payload has no other key and is the JSON body posted.
C29_FindInstrument ==
    (cl_request /= NONE /\ cl_call[1].method = "find_instrument") =>
        LET a  == bind("find_instrument", cl_call[1].given)
            pl == cl_request[1].payload[1]
        IN  /\ cl_request[1].endpoint = "FindInstrument"
            /\ "query" \in DOMAIN pl /\ pl["query"] = a.query
            /\ "instrumentKind" \in DOMAIN pl <=> a.instrument_kind /= NONE
            /\ a.instrument_kind /= NONE => pl["instrumentKind"] = a.instrument_kind[1].value
            /\ "apiTradeAvailableFlag" \in DOMAIN pl <=> a.api_trade_available_flag /= NONE
            /\ a.api_trade_available_flag /= NONE =>
                  pl["apiTradeAvailableFlag"] = a.api_trade_available_flag[1]
            /\ DOMAIN pl \subseteq {"query", "instrumentKind", "apiTradeAvailableFlag"}
            /\ cl_sent[1].json = Some(pl)

\* C29's case: find_instrument("", api_trade_available_flag=False) of the sync client
\* posted the empty query and the flag False, and no instrumentKind
C29_Witness ==
    /\ cl_sent /= NONE
    /\ cl_call[1].client = "sync" /\ cl_call[1].method = "find_instrument"
    /\ cl_call[1].given.query = ""
    /\ "api_trade_available_flag" \in DOMAIN cl_call[1].given
    /\ cl_call[1].given.api_trade_available_flag = Some(FALSE)
    /\ DOMAIN cl_sent[1].json[1] = {"query", "apiTradeAvailableFlag"}
    /\ cl_sent[1].json[1]["query"] = ""
    /\ cl_sent[1].json[1]["apiTradeAvailableFlag"] = FALSE

=============================================================================
